---- MODULE Spec2Model ----
(***************************************************************************)
(* Verification model of the wing-server scoring core.                     *)
(*                                                                         *)
(*  - AuthService.getWingScoreByGraph (src/src/auth/auth.service.ts) over  *)
(*    the rows that CrawlersService.saveGraphForUser persists.             *)
(*  - KisService indicator helpers calcSMA / calcRSI / calcMomentum and    *)
(*    the guards of the series forms (src/unnamed/part_000).               *)
(*                                                                         *)
(* Real numbers are exact rationals [n, d] in lowest terms (d > 0); a      *)
(* denominator of 0 stands for a non-finite double (NaN, +-Infinity).      *)
(* IEEE rounding error of the double arithmetic is not modelled.           *)
(***************************************************************************)
EXTENDS Integers, Sequences, FiniteSets, TLC

VARIABLES
    graphRows,   \* Graph table: set of [id, userID]
    nodeRows,    \* Node table of the graph: set of [name, weight]
    edgeRows,    \* Edge table of the graph: set of [startPoint, endPoint, sentiment_label, sentiment_score]
    newsRows,    \* News table of the graph: number of rows per (startPoint, endPoint)
    response,    \* outcome of the last getWingScoreByGraph call
    reads,       \* the queries that call issued, in order
    calc,        \* the locals of that call (baseScore, confidence, ...)
    candles,     \* closes of the fetched daily candles, oldest first
    indicator,   \* outcome of the last indicator computation
    accessToken,   \* KisService.accessToken: the cached token, or null
    tokenExpireAt, \* KisService.tokenExpireAt: ms timestamp, or null
    now,           \* the clock, in seconds
    pending,       \* asynchronous operations that have started and not ended
    graphSeq,      \* the Graph id sequence: the id given to the last graph
    newsBodyCache  \* the NewsBodyCache table: the links whose body is cached

vars ==
    <<graphRows, nodeRows, edgeRows, newsRows, response, reads, calc, candles, indicator,
      accessToken, tokenExpireAt, now, pending, graphSeq, newsBodyCache>>

wingVars == <<graphRows, nodeRows, edgeRows, newsRows, response, reads, calc>>
kisVars == <<candles, indicator>>
asyncVars == <<accessToken, tokenExpireAt, now, pending, graphSeq, newsBodyCache>>
cacheVars == <<accessToken, tokenExpireAt, now, newsBodyCache>>

\* no token cached, nothing in flight, no graph created, no body cached
Quiescent ==
    /\ accessToken = [type |-> "null"]
    /\ tokenExpireAt = [type |-> "null"]
    /\ now = 0
    /\ pending = {}
    /\ graphSeq = 0
    /\ newsBodyCache = {}

-----------------------------------------------------------------------------
(* Bounds of the model *)

MaxArticles == 2       \* articles attached to one edge of that response
MaxExtraArticles == 2  \* articles added when two graphs are compared
MaxThinArticles == 104 \* articles of the single-edge scenario
MaxSymArticles == 11   \* articles per edge of the symmetric scenario
MaxCandles == 4        \* candles of a freely chosen series
MaxClose == 3          \* closes of a freely chosen series are 1..MaxClose
MaxPeriod == 3         \* freely chosen periods are 1..MaxPeriod
MaxRamp == 22          \* candles of the rising series 10, 11, 12, ...
MaxLong == 2           \* candles of a long rising series beyond MA60 - 1
MaxTail == 2           \* free closes that end a long series
MaxGraphs == 2         \* graphs created in the store of several owners
MaxOpinions == 3       \* opinion records of one vendor answer
MaxItems == 3          \* collected articles handed to enrichCollectedWithBodies
MaxExtraSeeds == 1     \* seeds beyond one full batch of fetchBodiesWithConcurrency
MaxClock == 4          \* steps of 30 seconds that the clock advances
MaxSaves == 1          \* saveGraphForUser calls that run against concurrent deletes

-----------------------------------------------------------------------------
(* Exact rational arithmetic *)

Abs(x) == IF x < 0 THEN -x ELSE x

RECURSIVE GCD(_, _)
GCD(a, b) == IF b = 0 THEN a ELSE GCD(b, a % b)

Rat(n, d) ==
    IF d = 0 THEN [n |-> 1, d |-> 0]
    ELSE LET g == GCD(Abs(n), Abs(d))
             s == IF d < 0 THEN -1 ELSE 1
         IN  [n |-> s * (n \div g), d |-> s * (d \div g)]

Zero == Rat(0, 1)
One == Rat(1, 1)
Half == Rat(1, 2)
NonFinite == Rat(1, 0)

IsFinite(r) == r.d # 0
RAdd(a, b) == Rat(a.n * b.d + b.n * a.d, a.d * b.d)
RMul(a, b) ==
    LET g1 == GCD(Abs(a.n), b.d)
        g2 == GCD(Abs(b.n), a.d)
    IN  IF a.n = 0 \/ b.n = 0 THEN Zero
        ELSE Rat((a.n \div g1) * (b.n \div g2), (a.d \div g2) * (b.d \div g1))
RNeg(a) == [n |-> -a.n, d |-> a.d]
RAbs(a) == [n |-> Abs(a.n), d |-> a.d]
RLt(a, b) == a.n * b.d < b.n * a.d
RLe(a, b) == a.n * b.d <= b.n * a.d
RMin(a, b) == IF RLe(a, b) THEN a ELSE b
RMax(a, b) == IF RLe(a, b) THEN b ELSE a
RInt(k) == Rat(k, 1)
RSub(a, b) == RAdd(a, RNeg(b))
RDiv(a, b) == IF b.n = 0 THEN NonFinite ELSE RMul(a, Rat(b.d, b.n))

\* Math.round: nearest integer, ties toward +Infinity
MathRound(r) == (2 * r.n + r.d) \div (2 * r.d)

\* Number(x.toFixed(2)): nearest multiple of 0.01, ties away from zero
ToFixed2(r) ==
    IF ~IsFinite(r) THEN r
    ELSE LET a == RAbs(r)
             q == (2 * 100 * a.n + a.d) \div (2 * a.d)
         IN  Rat((IF r.n < 0 THEN -1 ELSE 1) * q, 100)

-----------------------------------------------------------------------------
(* Strings as character sequences: toLowerCase() and trim() *)

UpperChars == <<"A", "D", "E", "G", "I", "K", "L", "N", "O", "P", "Q", "R", "S", "T", "U", "V", "X">>
LowerChars == <<"a", "d", "e", "g", "i", "k", "l", "n", "o", "p", "q", "r", "s", "t", "u", "v", "x">>

ToLowerChar(c) ==
    IF \E i \in 1..Len(UpperChars) : UpperChars[i] = c
    THEN LowerChars[CHOOSE i \in 1..Len(UpperChars) : UpperChars[i] = c]
    ELSE c

ToLowerCase(s) == [i \in 1..Len(s) |-> ToLowerChar(s[i])]

ToUpperChar(c) ==
    IF \E i \in 1..Len(LowerChars) : LowerChars[i] = c
    THEN UpperChars[CHOOSE i \in 1..Len(LowerChars) : LowerChars[i] = c]
    ELSE c

ToUpperCase(s) == [i \in 1..Len(s) |-> ToUpperChar(s[i])]

IsSpace(c) == c \in {" ", "\t", "\n"}

RECURSIVE TrimStart(_)
TrimStart(s) == IF s # <<>> /\ IsSpace(Head(s)) THEN TrimStart(Tail(s)) ELSE s

RECURSIVE TrimEnd(_)
TrimEnd(s) ==
    IF s # <<>> /\ IsSpace(s[Len(s)]) THEN TrimEnd(SubSeq(s, 1, Len(s) - 1)) ELSE s

Trim(s) == TrimEnd(TrimStart(s))

-----------------------------------------------------------------------------
(* The graph store as saveGraphForUser fills it *)

Owner == <<"u", "1">>
Other == <<"u", "2">>
GraphId == 1

EdgeKeys == {<<"A", "B">>, <<"B", "A">>, <<"A", "C">>}

LabelPositive == <<"p", "o", "s", "i", "t", "i", "v", "e">>
LabelPositiveRaw == <<" ", "P", "o", "s", "i", "t", "i", "v", "e">>
LabelNegativeRaw == <<"N", "E", "G", "A", "T", "I", "V", "E", " ">>
LabelNeutral == <<"n", "e", "u", "t", "r", "a", "l">>
LabelNegative == <<"n", "e", "g", "a", "t", "i", "v", "e">>
Labels == {LabelPositiveRaw, LabelNegativeRaw, LabelNeutral, <<>>}

Scores == {Rat(-8, 10), Zero, Rat(1, 10), Rat(3, 2)}

NodeList(ws) == [i \in 1..Len(ws) |-> [id |-> <<"A", "B">>[i], importance |-> ws[i]]]

AiEdges ==
    {[source |-> k[1], target |-> k[2], sentiment_label |-> l,
      sentiment_score |-> s, articles |-> a] :
        k \in EdgeKeys, l \in Labels, s \in Scores, a \in 0..MaxArticles}

\* responses of the graph-construction service with up to two edges, and
\* importance lists that reach every branch of graphWeight
AiResponses ==
    {[nodes |-> NodeList(ws), edges |-> es] :
        ws \in {<<>>, <<Zero>>, <<One>>, <<Zero, Zero>>, <<Half, One>>, <<One, One>>},
        es \in {<<>>} \cup {<<e>> : e \in AiEdges} \cup {<<e, f>> : e, f \in AiEdges}}

\* edgePairs.set(`${source}->${target}`, ...): the last entry of a pair wins
EdgePairsOf(es) ==
    {[startPoint |-> es[i].source, endPoint |-> es[i].target,
      sentiment_label |-> es[i].sentiment_label,
      sentiment_score |-> es[i].sentiment_score] :
        i \in {j \in 1..Len(es) :
                 \A m \in (j + 1)..Len(es) :
                     <<es[m].source, es[m].target>> # <<es[j].source, es[j].target>>}}

RECURSIVE ArticlesOf(_, _)
ArticlesOf(es, key) ==
    IF es = <<>> THEN 0
    ELSE (IF <<Head(es).source, Head(es).target>> = key THEN Head(es).articles ELSE 0)
         + ArticlesOf(Tail(es), key)

\* newsRows.push({startPoint: source, endPoint: target, ...}) for every article of every entry
NewsRowsOf(es) == [k \in EdgeKeys |-> ArticlesOf(es, k)]

\* nodePairs.set(name, {weight, kind}): the last entry of a name wins
NodePairsOf(ns) ==
    {[name |-> ns[i].id, weight |-> ns[i].importance] :
        i \in {j \in 1..Len(ns) : \A m \in (j + 1)..Len(ns) : ns[m].id # ns[j].id}}

NoResponse == [status |-> "none"]
NoCalc == [done |-> FALSE]

SaveGraphWith(ai) ==
    /\ graphRows' = {[id |-> GraphId, userID |-> Owner]}
    /\ nodeRows' = NodePairsOf(ai.nodes)
    /\ edgeRows' = EdgePairsOf(ai.edges)
    /\ newsRows' = NewsRowsOf(ai.edges)
    /\ UNCHANGED <<response, reads, calc>>
    /\ UNCHANGED <<kisVars, asyncVars>>

\* graph.create gives the new graph a fresh id; the model holds one graph
saveGraphForUser ==
    /\ graphRows = {}
    /\ \E ai \in AiResponses : SaveGraphWith(ai)

-----------------------------------------------------------------------------
(* getWingScoreByGraph *)

MAX_NEWS_PER_NODE == 100
VOLUME_EXP == 2
EDGE_SCALE == Rat(5, 2)
MIN_CONFIDENCE == Rat(15, 100)

RECURSIVE SumWeights(_)
SumWeights(ns) ==
    IF ns = {} THEN Zero
    ELSE LET x == CHOOSE y \in ns : TRUE
         IN  RAdd(x.weight, SumWeights(ns \ {x}))

MaxWeightOf(ns) == (CHOOSE x \in ns : \A y \in ns : RLe(y.weight, x.weight)).weight

\* step 4: graphWeight
GraphWeight(ns) ==
    IF ns = {} THEN Half
    ELSE LET maxWeight == MaxWeightOf(ns)
         IN  IF RLt(Zero, maxWeight)
             THEN RMul(RMul(SumWeights(ns), Rat(maxWeight.d, maxWeight.n)),
                       Rat(1, Cardinality(ns)))
             ELSE Half

\* step 5: MAX_NEWS, volumeNorm, volumeFactor
MaxNewsOf(ns) ==
    IF Cardinality(ns) * MAX_NEWS_PER_NODE > 1 THEN Cardinality(ns) * MAX_NEWS_PER_NODE ELSE 1

VolumeNormInverted(totalNews, ns) ==
    IF totalNews = 0 THEN One ELSE RMin(One, Rat(MaxNewsOf(ns), totalNews))
VolumeNorm(totalNews, ns) == RMin(One, Rat(totalNews, MaxNewsOf(ns)))

RECURSIVE RPow(_, _)
RPow(r, e) == IF e = 0 THEN One ELSE RMul(r, RPow(r, e - 1))

VolumeFactorLinear(totalNews, ns) == VolumeNorm(totalNews, ns)
VolumeFactor(totalNews, ns) == RPow(VolumeNorm(totalNews, ns), VOLUME_EXP)

RECURSIVE CountAll(_, _)
CountAll(news, keys) ==
    IF keys = {} THEN 0
    ELSE LET k == CHOOSE x \in keys : TRUE
         IN  news[k] + CountAll(news, keys \ {k})

\* step 3: prisma.news.count
TotalNews(news) == CountAll(news, DOMAIN news)

\* step 6: groupBy(startPoint, endPoint) into newsCountMap
NewsCountMap(news) == [k \in {x \in DOMAIN news : news[x] > 0} |-> news[k]]

EdgeKeyOf(edge) == <<edge.startPoint, edge.endPoint>>

\* newsCountMap.get(key) ?? 0
EdgeNewsCount(map, edge) ==
    IF EdgeKeyOf(edge) \in DOMAIN map THEN map[EdgeKeyOf(edge)] ELSE 0

NormalizedLabel(edge) == Trim(ToLowerCase(edge.sentiment_label))

SignOfDefaultPositive(edge) ==
    IF NormalizedLabel(edge) = LabelNegative THEN -1 ELSE 1

SignOf(edge) ==
    IF NormalizedLabel(edge) = LabelPositive THEN 1
    ELSE IF NormalizedLabel(edge) = LabelNegative THEN -1
    ELSE 0

Magnitude(edge) ==
    LET m == RAbs(edge.sentiment_score)
    IN  IF ~IsFinite(m) \/ m = Zero THEN One
        ELSE IF RLt(One, m) THEN One
        ELSE m

ContributionUnsigned(edge, map, totalNews) ==
    IF SignOf(edge) = 0 THEN Zero
    ELSE IF EdgeNewsCount(map, edge) = 0 THEN Zero
    ELSE RMul(Magnitude(edge), Rat(EdgeNewsCount(map, edge), totalNews))

\* one iteration of the loop of step 7
Contribution(edge, map, totalNews) ==
    IF SignOf(edge) = 0 THEN Zero
    ELSE IF EdgeNewsCount(map, edge) = 0 THEN Zero
    ELSE RMul(RMul(RInt(SignOf(edge)), Magnitude(edge)),
              Rat(EdgeNewsCount(map, edge), totalNews))

RECURSIVE EdgeSum(_, _, _)
EdgeSum(es, map, totalNews) ==
    IF es = {} THEN Zero
    ELSE LET e == CHOOSE x \in es : TRUE
         IN  RAdd(Contribution(e, map, totalNews), EdgeSum(es \ {e}, map, totalNews))

ClampMissing(x, lo, hi) == x
Clamp(x, lo, hi) == RMax(lo, RMin(hi, x))

\* step 8
BaseScore(sum) == Clamp(RMul(sum, EDGE_SCALE), RNeg(One), One)

ConfidenceNoFloor(graphWeight, volumeFactor) == RMul(graphWeight, volumeFactor)

\* step 9
Confidence(graphWeight, volumeFactor) ==
    RAdd(MIN_CONFIDENCE,
         RMul(RAdd(One, RNeg(MIN_CONFIDENCE)), RMul(graphWeight, volumeFactor)))

\* step 10
Scaled(baseScore, confidence) == RMul(RMul(baseScore, confidence), RInt(100))
FinalScore(scaled) == MathRound(Clamp(scaled, RInt(-100), RInt(100)))

\* the locals of steps 4..10 for given rows
WingCalc(es, ns, news) ==
    LET totalNews == TotalNews(news)
        graphWeight == GraphWeight(ns)
        volumeFactor == VolumeFactor(totalNews, ns)
        sum == EdgeSum(es, NewsCountMap(news), totalNews)
        baseScore == BaseScore(sum)
        confidence == Confidence(graphWeight, volumeFactor)
        scaled == Scaled(baseScore, confidence)
    IN  [done |-> TRUE, totalNews |-> totalNews, graphWeight |-> graphWeight,
         volumeFactor |-> volumeFactor, sum |-> sum, baseScore |-> baseScore,
         confidence |-> confidence, scaled |-> scaled,
         wingScore |-> FinalScore(scaled)]

\* edges.length === 0
NoEdges(es) == es = {}

NoNewsUnchecked(totalNews) == FALSE
\* totalNews === 0
NoNews(totalNews) == totalNews = 0

\* the score of steps 2..10 for given rows
WingScoreOf(es, ns, news) ==
    IF NoEdges(es) THEN 0
    ELSE IF NoNews(TotalNews(news)) THEN 0
    ELSE WingCalc(es, ns, news).wingScore

BadRequest(msg) == [status |-> "BadRequest", message |-> msg]
Ok(graphId, wingScore) == [status |-> "ok", graphId |-> graphId, wingScore |-> wingScore]

UserInputs == {<<>>, <<" ">>, Owner, <<" ", "u", "1", " ">>, Other}
GraphIdInputs == {-1, 0, 1, 2}

GetWingScore(user, graphId) ==
    LET userId == Trim(user)
    IN  /\ response = NoResponse
        /\ IF userId = <<>>
           THEN /\ response' = BadRequest("user id is required")
                /\ reads' = <<>>
                /\ calc' = NoCalc
           ELSE IF graphId <= 0
           THEN /\ response' = BadRequest("graphId is required")
                /\ reads' = <<>>
                /\ calc' = NoCalc
           ELSE IF ~\E g \in graphRows : g.id = graphId /\ g.userID = userId
           THEN /\ response' = BadRequest("graph not found for this user")
                /\ reads' = <<"graph">>
                /\ calc' = NoCalc
           ELSE IF NoEdges(edgeRows)
           THEN /\ response' = Ok(graphId, 0)
                /\ reads' = <<"graph", "edge">>
                /\ calc' = NoCalc
           ELSE IF NoNews(TotalNews(newsRows))
           THEN /\ response' = Ok(graphId, 0)
                /\ reads' = <<"graph", "edge", "news.count">>
                /\ calc' = NoCalc
           ELSE /\ calc' = WingCalc(edgeRows, nodeRows, newsRows)
                /\ response' = Ok(graphId, calc'.wingScore)
                /\ reads' = <<"graph", "edge", "news.count", "node", "news.groupBy">>
        /\ UNCHANGED <<graphRows, nodeRows, edgeRows, newsRows>>
        /\ UNCHANGED <<kisVars, asyncVars>>

getWingScoreByGraph == \E user \in UserInputs, graphId \in GraphIdInputs : GetWingScore(user, graphId)

\* the caller takes the response; the next call may start
Respond ==
    /\ response # NoResponse
    /\ response' = NoResponse
    /\ reads' = <<>>
    /\ calc' = NoCalc
    /\ UNCHANGED <<graphRows, nodeRows, edgeRows, newsRows>>
    /\ UNCHANGED <<kisVars, asyncVars>>

NoCandles == <<>>
NoIndicator == [status |-> "none"]

Init ==
    /\ graphRows = {}
    /\ nodeRows = {}
    /\ edgeRows = {}
    /\ newsRows = [k \in EdgeKeys |-> 0]
    /\ response = NoResponse
    /\ reads = <<>>
    /\ calc = NoCalc
    /\ candles = NoCandles
    /\ indicator = NoIndicator
    /\ Quiescent

Next ==
    \/ saveGraphForUser
    \/ getWingScoreByGraph
    \/ Respond

Spec == Init /\ [][Next]_vars

-----------------------------------------------------------------------------
(* KisService: daily candles and the indicator helpers *)

MA20 == 20
MA60 == 60

\* stck_bsop_date of the i-th trading day, as the number YYYYMMDD
DateOf(i) == 20240000 + (100 * (1 + (i \div 28))) + 1 + (i % 28)

CandlesOf(closes) == [i \in 1..Len(closes) |-> [date |-> DateOf(i), close |-> closes[i]]]

\* fetchDailyCandles: at least one candle, sorted oldest first; the closes
\* are freely chosen or the rising run 10, 11, 12, ...
CandleSeries ==
    {CandlesOf(cl) :
        cl \in UNION {[1..n -> 1..MaxClose] : n \in 1..MaxCandles}
               \cup {[i \in 1..n |-> 9 + i] : n \in 1..MaxRamp}}

\* series with enough history for the 60-day average: a rising run, then
\* up to MaxTail free closes
LongSeries ==
    {CandlesOf([i \in 1..n |-> 9 + i] \o tail) :
        n \in (MA60 - 1)..(MA60 - 1 + MaxLong),
        tail \in UNION {[1..k -> 1..MaxClose] : k \in 0..MaxTail}}

RsiPeriods == (1..MaxPeriod) \cup {MA20}

Closes(cs) == [i \in 1..Len(cs) |-> cs[i].close]

\* closes[i] with the zero-based index of the source
At(closes, i) == closes[i + 1]

LastNOffByOne(cs, n) ==
    SubSeq(cs, (IF Len(cs) - n + 2 > 1 THEN Len(cs) - n + 2 ELSE 1), Len(cs))

\* candles.slice(-n): the last n elements, all of them when n > length
LastN(cs, n) ==
    SubSeq(cs, (IF Len(cs) - n + 1 > 1 THEN Len(cs) - n + 1 ELSE 1), Len(cs))

RECURSIVE SumCloses(_)
\* reduce((acc, c) => acc + c.close, 0): the closes are integers, so the sum
\* is taken by halves of the series
SumCloses(cs) ==
    IF Len(cs) = 0 THEN 0
    ELSE IF Len(cs) = 1 THEN cs[1].close
    ELSE LET half == Len(cs) \div 2
         IN  SumCloses(SubSeq(cs, 1, half)) + SumCloses(SubSeq(cs, half + 1, Len(cs)))

Failed(kind, period) ==
    [status |-> "InternalServerError", kind |-> kind, period |-> period]
Computed(kind, period, value) ==
    [status |-> "ok", kind |-> kind, period |-> period, value |-> value]

TooFewForSMAUnchecked(cs, period) == FALSE
\* candles.length < period
TooFewForSMA(cs, period) == Len(cs) < period

\* candles.length <= period
TooFewForSeed(cs, period) == Len(cs) <= period

calcSMAOverAll(cs, period) ==
    IF TooFewForSMA(cs, period) THEN Failed("calcSMA", period)
    ELSE Computed("calcSMA", period, ToFixed2(Rat(SumCloses(cs), period)))
calcSMA(cs, period) ==
    IF TooFewForSMA(cs, period) THEN Failed("calcSMA", period)
    ELSE Computed("calcSMA", period,
                  ToFixed2(Rat(SumCloses(LastN(cs, period)), period)))

RECURSIVE SeedSumsSigned(_, _, _)
SeedSumsSigned(closes, lo, hi) ==
    IF lo > hi THEN [gain |-> 0, loss |-> 0]
    ELSE IF lo = hi
    THEN LET delta == At(closes, lo) - At(closes, lo - 1)
         IN  IF delta > 0 THEN [gain |-> delta, loss |-> 0]
             ELSE [gain |-> 0, loss |-> delta]
    ELSE LET mid == (lo + hi) \div 2
             left == SeedSumsSigned(closes, lo, mid)
             right == SeedSumsSigned(closes, mid + 1, hi)
         IN  [gain |-> left.gain + right.gain, loss |-> left.loss + right.loss]
RECURSIVE SeedSums(_, _, _)
\* gainSum and lossSum over the transitions lo..hi: gainSum += delta when
\* delta > 0, lossSum -= delta otherwise; integer sums, taken by halves of
\* the range
SeedSums(closes, lo, hi) ==
    IF lo > hi THEN [gain |-> 0, loss |-> 0]
    ELSE IF lo = hi
    THEN LET delta == At(closes, lo) - At(closes, lo - 1)
         IN  IF delta > 0 THEN [gain |-> delta, loss |-> 0]
             ELSE [gain |-> 0, loss |-> -delta]
    ELSE LET mid == (lo + hi) \div 2
             left == SeedSums(closes, lo, mid)
             right == SeedSums(closes, mid + 1, hi)
         IN  [gain |-> left.gain + right.gain, loss |-> left.loss + right.loss]

\* (avg * (period - 1) + x) / period
Smoothed(avg, x, period) == Rat(avg.n * (period - 1) + x * avg.d, avg.d * period)

\* the seed averages, with no smoothing after index period
WilderAvgSeedOnly(closes, period, i) ==
    <<[gain |-> Rat(SeedSums(closes, 1, period).gain, period),
       loss |-> Rat(SeedSums(closes, 1, period).loss, period)]>>

RECURSIVE WilderAvg(_, _, _)
\* the values avgGain and avgLoss take: the seed at index period, then one
\* smoothed pair for each index up to i
WilderAvg(closes, period, i) ==
    IF i = period
    THEN <<[gain |-> Rat(SeedSums(closes, 1, period).gain, period),
            loss |-> Rat(SeedSums(closes, 1, period).loss, period)]>>
    ELSE LET past == WilderAvg(closes, period, i - 1)
             prev == past[Len(past)]
             delta == At(closes, i) - At(closes, i - 1)
             gain == IF delta > 0 THEN delta ELSE 0
             loss == IF delta < 0 THEN -delta ELSE 0
         IN  Append(past, [gain |-> Smoothed(prev.gain, gain, period),
                           loss |-> Smoothed(prev.loss, loss, period)])

RsiOfUnsaturated(avg) ==
    LET rs == IF avg.loss = Zero THEN Zero ELSE RDiv(avg.gain, avg.loss)
    IN  ToFixed2(RSub(RInt(100), RDiv(RInt(100), RAdd(One, rs))))
RsiOf(avg) ==
    IF avg.loss = Zero THEN RInt(100)
    ELSE LET rs == RDiv(avg.gain, avg.loss)
         IN  ToFixed2(RSub(RInt(100), RDiv(RInt(100), RAdd(One, rs))))

calcRSI(cs, period) ==
    IF TooFewForSeed(cs, period) THEN Failed("calcRSI", period)
    ELSE LET avgs == WilderAvg(Closes(cs), period, Len(cs) - 1)
         IN  Computed("calcRSI", period, RsiOf(avgs[Len(avgs)]))

calcMomentumOffByOne(cs, period) ==
    IF TooFewForSeed(cs, period) THEN Failed("calcMomentum", period)
    ELSE LET latest == cs[Len(cs)].close
             prev == cs[Len(cs) - period + 1].close
         IN  Computed("calcMomentum", period,
                 [value |-> ToFixed2(RInt(latest - prev)),
                  pct |-> ToFixed2(RMul(RSub(Rat(latest, prev), One), RInt(100)))])
calcMomentum(cs, period) ==
    IF TooFewForSeed(cs, period) THEN Failed("calcMomentum", period)
    ELSE LET latest == cs[Len(cs)].close
             prev == cs[Len(cs) - period].close
         IN  Computed("calcMomentum", period,
                 [value |-> ToFixed2(RInt(latest - prev)),
                  pct |-> ToFixed2(RMul(RSub(Rat(latest, prev), One), RInt(100)))])

\* 'YYYYMMDD' -> 'YYYY-MM-DD', as the three fields
ToYMDHyphen(d) == <<d \div 10000, (d \div 100) % 100, d % 100>>

InWindowExclusive(points, fromDate) == SelectSeq(points, LAMBDA pt : pt.raw > fromDate)
InWindow(points, fromDate) == SelectSeq(points, LAMBDA pt : pt.raw >= fromDate)

Published(points) ==
    [i \in 1..Len(points) |->
        [date |-> ToYMDHyphen(points[i].raw), value |-> points[i].value]]

RECURSIVE RsiLoop(_, _, _)
\* avgGain, avgLoss and rsiArr[k] for each index k = period..i the loop has
\* passed
RsiLoop(closes, period, i) ==
    IF i = period
    THEN LET seed == [gain |-> Rat(SeedSums(closes, 1, period).gain, period),
                      loss |-> Rat(SeedSums(closes, 1, period).loss, period)]
         IN  <<[gain |-> seed.gain, loss |-> seed.loss, rsi |-> RsiOf(seed)]>>
    ELSE LET past == RsiLoop(closes, period, i - 1)
             prev == past[Len(past)]
             delta == At(closes, i) - At(closes, i - 1)
             gain == IF delta > 0 THEN delta ELSE 0
             loss == IF delta < 0 THEN -delta ELSE 0
             avg == [gain |-> Smoothed(prev.gain, gain, period),
                     loss |-> Smoothed(prev.loss, loss, period)]
         IN  Append(past, [gain |-> avg.gain, loss |-> avg.loss, rsi |-> RsiOf(avg)])

getRSISeries(cs, period, fromDate) ==
    IF TooFewForSeed(cs, period) THEN Failed("getRSISeries", period)
    ELSE LET rsiArr == RsiLoop(Closes(cs), period, Len(cs) - 1)
             points == [k \in 1..(Len(cs) - period) |->
                           [raw |-> cs[period + k].date, value |-> rsiArr[k].rsi]]
         IN  Computed("getRSISeries", period, Published(InWindow(points, fromDate)))

getMomentumSeries(cs, period, fromDate) ==
    IF TooFewForSeed(cs, period) THEN Failed("getMomentumSeries", period)
    ELSE LET points == [k \in 1..(Len(cs) - period) |->
                           [raw |-> cs[period + k].date,
                            value |-> ToFixed2(RInt(cs[period + k].close - cs[k].close))]]
         IN  Computed("getMomentumSeries", period, Published(InWindow(points, fromDate)))

\* the value of a field that carries no number
Null == [null |-> TRUE]

RECURSIVE SumFromTo(_, _, _)
\* for (let j = lo; j <= hi; j++) sum += closes[j]: the closes are
\* integers, so the sum is taken by halves of the range
SumFromTo(closes, lo, hi) ==
    IF lo > hi THEN 0
    ELSE IF lo = hi THEN At(closes, lo)
    ELSE LET mid == (lo + hi) \div 2
         IN  SumFromTo(closes, lo, mid) + SumFromTo(closes, mid + 1, hi)

MovingAverageShortWindow(closes, i, n) ==
    IF i >= n - 1 THEN ToFixed2(Rat(SumFromTo(closes, i - n + 2, i), n)) ELSE Null
\* the n-day moving average at index i, null before index n - 1
MovingAverage(closes, i, n) ==
    IF i >= n - 1 THEN ToFixed2(Rat(SumFromTo(closes, i - n + 1, i), n)) ELSE Null

getCloseWithMovingAveragesSeries(cs, fromDate) ==
    LET closes == Closes(cs)
        points == [k \in 1..Len(cs) |->
                      [raw |-> cs[k].date,
                       close |-> cs[k].close,
                       ma20 |-> MovingAverage(closes, k - 1, MA20),
                       ma60 |-> MovingAverage(closes, k - 1, MA60)]]
        kept == InWindow(points, fromDate)
    IN  Computed("getCloseWithMovingAveragesSeries", 0,
            [i \in 1..Len(kept) |->
                [date |-> ToYMDHyphen(kept[i].raw), close |-> kept[i].close,
                 ma20 |-> kept[i].ma20, ma60 |-> kept[i].ma60]])

\* getOneMonthAgoString(): the first date of the display window
FromDates(cs) == {DateOf(i) : i \in {0, 2, Len(cs), Len(cs) + 1}}

CalcSMA ==
    /\ \E period \in RsiPeriods \cup {MA60} : indicator' = calcSMA(candles, period)
    /\ UNCHANGED candles
    /\ UNCHANGED <<wingVars, asyncVars>>

CalcRSI ==
    /\ \E period \in RsiPeriods : indicator' = calcRSI(candles, period)
    /\ UNCHANGED candles
    /\ UNCHANGED <<wingVars, asyncVars>>

CalcMomentum ==
    /\ \E period \in RsiPeriods : indicator' = calcMomentum(candles, period)
    /\ UNCHANGED candles
    /\ UNCHANGED <<wingVars, asyncVars>>

GetRSISeries ==
    /\ \E period \in RsiPeriods : \E fromDate \in FromDates(candles) :
          indicator' = getRSISeries(candles, period, fromDate)
    /\ UNCHANGED candles
    /\ UNCHANGED <<wingVars, asyncVars>>

GetMomentumSeries ==
    /\ \E period \in RsiPeriods : \E fromDate \in FromDates(candles) :
          indicator' = getMomentumSeries(candles, period, fromDate)
    /\ UNCHANGED candles
    /\ UNCHANGED <<wingVars, asyncVars>>

GetCloseWithMovingAveragesSeries ==
    /\ \E fromDate \in FromDates(candles) :
          indicator' = getCloseWithMovingAveragesSeries(candles, fromDate)
    /\ UNCHANGED candles
    /\ UNCHANGED <<wingVars, asyncVars>>

InitKis ==
    /\ graphRows = {}
    /\ nodeRows = {}
    /\ edgeRows = {}
    /\ newsRows = [k \in EdgeKeys |-> 0]
    /\ response = NoResponse
    /\ reads = <<>>
    /\ calc = NoCalc
    /\ candles \in CandleSeries
    /\ indicator = NoIndicator
    /\ Quiescent

NextKis ==
    \/ CalcSMA
    \/ CalcRSI
    \/ CalcMomentum
    \/ GetRSISeries
    \/ GetMomentumSeries
    \/ GetCloseWithMovingAveragesSeries

SpecKis == InitKis /\ [][NextKis]_vars

\* the price and moving-average queries over series long enough for MA60
InitMa ==
    /\ graphRows = {}
    /\ nodeRows = {}
    /\ edgeRows = {}
    /\ newsRows = [k \in EdgeKeys |-> 0]
    /\ response = NoResponse
    /\ reads = <<>>
    /\ calc = NoCalc
    /\ candles \in LongSeries
    /\ indicator = NoIndicator
    /\ Quiescent

NextMa ==
    \/ CalcSMA
    \/ GetCloseWithMovingAveragesSeries

SpecMa == InitMa /\ [][NextMa]_vars

-----------------------------------------------------------------------------
(* Claims about getWingScoreByGraph *)

\* C1: every result getWingScoreByGraph returns carries an integer wingScore
\* with -100 <= wingScore <= 100.
C1_ScoreBounded ==
    response.status = "ok" => response.wingScore \in -100..100

C1_Witness ==
    /\ response.status = "ok"
    /\ calc.done
    /\ RLt(One, RMul(calc.sum, EDGE_SCALE))
    /\ response.wingScore >= 50

\* the News rows keyed to the node pair of an edge, in either orientation
BothOrientations(news, edge) ==
    LET fwd == <<edge.startPoint, edge.endPoint>>
        rev == <<edge.endPoint, edge.startPoint>>
    IN  (IF fwd \in DOMAIN news THEN news[fwd] ELSE 0)
        + (IF rev \in DOMAIN news /\ rev # fwd THEN news[rev] ELSE 0)

\* C2: the article count that weighs an edge in getWingScoreByGraph is the
\* number of News rows keyed to the edge's node pair in either orientation.
C2_BothOrientationsCounted ==
    calc.done =>
        \A e \in edgeRows :
            SignOf(e) # 0 =>
                EdgeNewsCount(NewsCountMap(newsRows), e) = BothOrientations(newsRows, e)

\* a second graph: the same rows with k more articles attributed to one edge
AddArticles(news, edge, k) == [news EXCEPT ![EdgeKeyOf(edge)] = @ + k]

RawSum(es, news) ==
    IF TotalNews(news) = 0 THEN Zero
    ELSE EdgeSum(es, NewsCountMap(news), TotalNews(news))

RSign(r) == IF r.n > 0 THEN 1 ELSE IF r.n < 0 THEN -1 ELSE 0
IntSign(i) == IF i > 0 THEN 1 ELSE IF i < 0 THEN -1 ELSE 0

Owned(user, graphId) == \E g \in graphRows : g.id = graphId /\ g.userID = Trim(user)

\* C5: for an owned graph with zero edges, or with edges but zero articles,
\* getWingScoreByGraph returns wingScore 0 without reading nodes or the
\* per-edge article counts.
C5_DegenerateIsZero ==
    [][\A user \in UserInputs : \A graphId \in GraphIdInputs :
          (/\ edgeRows = {} \/ \A k \in DOMAIN newsRows : newsRows[k] = 0
           /\ graphId > 0
           /\ Owned(user, graphId)
           /\ GetWingScore(user, graphId))
          => /\ response' = Ok(graphId, 0)
             /\ \A i \in 1..Len(reads') : reads'[i] \notin {"node", "news.groupBy"}]_vars

C5_Witness ==
    /\ response = Ok(GraphId, 0)
    /\ edgeRows # {}
    /\ \A k \in DOMAIN newsRows : newsRows[k] = 0
    /\ reads = <<"graph", "edge", "news.count">>

SetScore(es, edge, s) ==
    (es \ {edge}) \cup {[edge EXCEPT !.sentiment_score = s]}

Undirected(edge) ==
    Trim(ToLowerCase(edge.sentiment_label)) \notin {LabelPositive, LabelNegative}

\* C6: an edge whose label is neither positive nor negative contributes 0 to
\* the raw sum, and changing its sentiment_score never changes wingScore.
C6_NeutralExcluded ==
    response.status = "ok" =>
        \A e \in edgeRows :
            Undirected(e) =>
                /\ calc.done => Contribution(e, NewsCountMap(newsRows), calc.totalNews) = Zero
                /\ \A s \in Scores \cup {NonFinite} :
                      WingScoreOf(SetScore(edgeRows, e, s), nodeRows, newsRows)
                          = response.wingScore

C6_Witness ==
    /\ response.status = "ok"
    /\ response.wingScore # 0
    /\ \E e \in edgeRows :
          Undirected(e) /\ newsRows[EdgeKeyOf(e)] > 0 /\ e.sentiment_score # Zero

-----------------------------------------------------------------------------
(* Scenario graphs: one fully evidenced positive edge; a positive and a    *)
(* negative edge of equal strength and evidence                            *)

ThinResponses ==
    {[nodes |-> NodeList(<<One>>),
      edges |-> <<[source |-> "A", target |-> "B", sentiment_label |-> LabelPositive,
                   sentiment_score |-> One, articles |-> n]>>] :
        n \in 1..MaxThinArticles}

SymResponses ==
    {[nodes |-> NodeList(<<One, One>>),
      edges |-> <<[source |-> "A", target |-> "B", sentiment_label |-> LabelPositive,
                   sentiment_score |-> s1, articles |-> c1],
                  [source |-> "A", target |-> "C", sentiment_label |-> LabelNegative,
                   sentiment_score |-> s2, articles |-> c2],
                  [source |-> "B", target |-> "A", sentiment_label |-> LabelNeutral,
                   sentiment_score |-> One, articles |-> a]>>] :
        s1 \in {Rat(8, 10), Rat(-8, 10), Rat(1, 10), Rat(3, 2)},
        s2 \in {Rat(8, 10), Rat(-8, 10), Rat(1, 10), Rat(3, 2)},
        c1 \in (MaxSymArticles - 2)..MaxSymArticles,
        c2 \in (MaxSymArticles - 2)..MaxSymArticles,
        a \in {0, 1}}

saveScenarioGraph ==
    /\ graphRows = {}
    /\ \E ai \in ThinResponses \cup SymResponses : SaveGraphWith(ai)

NextScenario ==
    \/ saveScenarioGraph
    \/ getWingScoreByGraph
    \/ Respond

SpecScenario == Init /\ [][NextScenario]_vars

\* round(100 * (0.15 + 0.85 * min(1, n/100)^2)), in integers
ThinExpected(n) ==
    LET m == IF n < 100 THEN n ELSE 100
    IN  (2 * (150000 + 85 * m * m) + 10000) \div 20000

IsThinGraph(n) ==
    /\ nodeRows = {[name |-> "A", weight |-> One]}
    /\ edgeRows = {[startPoint |-> "A", endPoint |-> "B",
                    sentiment_label |-> LabelPositive, sentiment_score |-> One]}
    /\ newsRows = [k \in EdgeKeys |-> IF k = <<"A", "B">> THEN n ELSE 0]

C7_WitnessFull ==
    /\ response.status = "ok"
    /\ IsThinGraph(100)
    /\ response.wingScore = 100

\* the edges that carry a sign, by their stored label
DirectedEdges(sign) ==
    {e \in edgeRows :
        Trim(ToLowerCase(e.sentiment_label))
            = (IF sign = 1 THEN LabelPositive ELSE LabelNegative)}

\* C8: when the only non-neutral edges are one positive and one negative
\* edge of equal |sentiment_score| and equal article counts, wingScore = 0.
C8_SymmetricCancels ==
    response.status = "ok" =>
        \A p \in DirectedEdges(1) : \A q \in DirectedEdges(-1) :
            (/\ DirectedEdges(1) = {p}
             /\ DirectedEdges(-1) = {q}
             /\ RAbs(p.sentiment_score) = RAbs(q.sentiment_score)
             /\ newsRows[EdgeKeyOf(p)] = newsRows[EdgeKeyOf(q)])
            => response.wingScore = 0

C8_Witness ==
    /\ response = Ok(GraphId, 0)
    /\ calc.done
    /\ calc.totalNews = 20
    /\ Cardinality(nodeRows) = 2
    /\ \E p \in DirectedEdges(1) : \E q \in DirectedEdges(-1) :
          /\ p.sentiment_score = Rat(8, 10)
          /\ q.sentiment_score = Rat(8, 10)
          /\ newsRows[EdgeKeyOf(p)] = 10
          /\ newsRows[EdgeKeyOf(q)] = 10

-----------------------------------------------------------------------------
(* Claims about the indicator helpers *)

SeedKinds == {"calcRSI", "getRSISeries", "calcMomentum", "getMomentumSeries"}

\* C9 (as claimed): SMA, RSI and momentum all fail when the series has at
\* most `period` candles.
C9_GuardAsClaimed ==
    (indicator.status # "none" /\ Len(candles) <= indicator.period)
        => indicator.status = "InternalServerError"

\* C9 (amended): RSI and momentum (latest and series forms) fail when the
\* series has at most `period` candles; calcSMA fails when it has fewer than
\* `period` candles and returns a value when it has exactly `period`.
C9_GuardAmended ==
    /\ (indicator.status # "none" /\ indicator.kind \in SeedKinds
            /\ Len(candles) <= indicator.period)
        => indicator.status = "InternalServerError"
    /\ (indicator.status # "none" /\ indicator.kind = "calcSMA"
            /\ Len(candles) < indicator.period)
        => indicator.status = "InternalServerError"
    /\ (indicator.status # "none" /\ indicator.kind = "calcSMA"
            /\ Len(candles) = indicator.period)
        => indicator.status = "ok"

C9_Witness ==
    /\ indicator.status = "InternalServerError"
    /\ indicator.kind = "calcSMA"
    /\ Len(candles) = indicator.period - 1

IsRamp(n) == candles = CandlesOf([i \in 1..n |-> 9 + i])

\* C10: for a series of exactly `period` candles calcSMA returns the mean of
\* all closes (to 2 decimals); closes 10..29 with period 20 give 19.5.
C10_FullWindowMean ==
    (indicator.status = "ok" /\ indicator.kind = "calcSMA"
        /\ Len(candles) = indicator.period)
    => LET mean == Rat(SumCloses(candles), Len(candles))
           err == RAbs(RSub(indicator.value, mean))
       IN  /\ RLe(err, Rat(1, 200))
           /\ (100 * mean.n) % mean.d = 0 => indicator.value = mean
           /\ IsRamp(20) => indicator.value = Rat(39, 2)

C10_Witness ==
    /\ indicator.status = "ok"
    /\ indicator.kind = "calcSMA"
    /\ indicator.period = 20
    /\ IsRamp(20)
    /\ indicator.value = Rat(39, 2)

\* the zero-based index of the candle a published point was made from
IndexOfDate(cs, ymd) == (CHOOSE k \in 1..Len(cs) : ToYMDHyphen(cs[k].date) = ymd) - 1

\* v has at most 2 decimals and lies within half a hundredth of r
IsRoundedTo2(v, r) ==
    /\ IsFinite(v)
    /\ (100 * v.n) % v.d = 0
    /\ RLe(RAbs(RSub(v, r)), Rat(1, 200))

RECURSIVE SumOfCloses(_, _, _)
\* cs[lo].close + ... + cs[hi].close, by halving the range
SumOfCloses(cs, lo, hi) ==
    IF lo > hi THEN 0
    ELSE IF lo = hi THEN cs[lo].close
    ELSE SumOfCloses(cs, lo, (lo + hi) \div 2) + SumOfCloses(cs, (lo + hi) \div 2 + 1, hi)

\* the exact mean of the n closes ending at zero-based index i
MeanEndingAt(cs, i, n) == Rat(SumOfCloses(cs, i - n + 2, i + 1), n)

SameTail(a, b, n) ==
    /\ Len(a) >= n
    /\ Len(b) >= n
    /\ \A j \in 0..(n - 1) : a[Len(a) - j].close = b[Len(b) - j].close

\* C11: a value returned by calcSMA(series, period) is the mean, rounded to 2
\* decimals, of exactly the last `period` closes, and every series with the
\* same last `period` closes gives the same value; each ma20/ma60 of the
\* price series is the rounded mean of the 20/60 closes ending at its index.
C11_SmaWindow ==
    /\ (indicator.status = "ok" /\ indicator.kind = "calcSMA")
        => /\ IsRoundedTo2(indicator.value,
                  MeanEndingAt(candles, Len(candles) - 1, indicator.period))
           /\ \A other \in CandleSeries \cup LongSeries :
                 SameTail(candles, other, indicator.period)
                     => calcSMA(other, indicator.period) = indicator
    /\ (indicator.status = "ok" /\ indicator.kind = "getCloseWithMovingAveragesSeries")
        => \A k \in 1..Len(indicator.value) :
              LET pt == indicator.value[k]
                  i == IndexOfDate(candles, pt.date)
              IN  /\ pt.ma20 # Null => IsRoundedTo2(pt.ma20, MeanEndingAt(candles, i, MA20))
                  /\ pt.ma60 # Null => IsRoundedTo2(pt.ma60, MeanEndingAt(candles, i, MA60))

C11_Witness ==
    /\ indicator.status = "ok"
    /\ indicator.kind = "calcSMA"
    /\ indicator.period < Len(candles)
    /\ indicator.value # ToFixed2(Rat(SumCloses(candles), Len(candles)))
    /\ \E other \in CandleSeries \cup LongSeries :
          /\ SameTail(candles, other, indicator.period)
          /\ Len(other) > Len(candles)
          /\ \E j \in 1..Len(candles) :
                other[Len(other) - j + 1].close # candles[Len(candles) - j + 1].close

NonDecreasing(cs) == \A i \in 1..(Len(cs) - 1) : cs[i].close <= cs[i + 1].close

\* C12: for closes that never fall (equal closes included) calcRSI returns
\* exactly 100 and every point getRSISeries emits carries exactly 100.
C12_RsiSaturation ==
    NonDecreasing(candles) =>
        /\ (indicator.status = "ok" /\ indicator.kind = "calcRSI")
              => indicator.value = RInt(100)
        /\ (indicator.status = "ok" /\ indicator.kind = "getRSISeries")
              => \A k \in 1..Len(indicator.value) : indicator.value[k].value = RInt(100)

C12_Witness ==
    /\ NonDecreasing(candles)
    /\ \E i \in 1..(Len(candles) - 1) : candles[i].close = candles[i + 1].close
    /\ \E i \in 1..(Len(candles) - 1) : candles[i].close < candles[i + 1].close
    /\ indicator.status = "ok"
    /\ indicator.kind = "getRSISeries"
    /\ Len(indicator.value) = Len(candles) - indicator.period
    /\ Len(indicator.value) >= 2
    /\ calcRSI(candles, indicator.period).value = RInt(100)

InRsiRange(v) == IsFinite(v) /\ RLe(Zero, v) /\ RLe(v, RInt(100))

\* C13: for a series of positive closes with more than `period` candles the
\* value of calcRSI and every value of getRSISeries lies in 0..100.
C13_RsiBounds ==
    (/\ indicator.status = "ok"
     /\ Len(candles) > indicator.period
     /\ \A i \in 1..Len(candles) : candles[i].close > 0)
    => /\ indicator.kind = "calcRSI" => InRsiRange(indicator.value)
       /\ indicator.kind = "getRSISeries"
             => \A k \in 1..Len(indicator.value) : InRsiRange(indicator.value[k].value)

C13_Witness ==
    /\ indicator.status = "ok"
    /\ indicator.kind = "getRSISeries"
    /\ Len(indicator.value) >= 2
    /\ indicator.value[1].value = Zero
    /\ RLt(Zero, indicator.value[2].value)
    /\ RLt(indicator.value[2].value, RInt(100))
    /\ InRsiRange(calcRSI(candles, indicator.period).value)

\* close(t) - close(t - period) for the zero-based index t
CloseDifference(cs, t, period) == RInt(cs[t + 1].close - cs[t + 1 - period].close)

\* C14: the value of calcMomentum is close(last) - close(last - period), and
\* each point getMomentumSeries emits for index t carries
\* close(t) - close(t - period), which is 0 when the two closes are equal.
C14_MomentumIdentity ==
    /\ (indicator.status = "ok" /\ indicator.kind = "calcMomentum")
          => /\ indicator.value.value
                    = CloseDifference(candles, Len(candles) - 1, indicator.period)
             /\ candles[Len(candles)].close = candles[Len(candles) - indicator.period].close
                    => indicator.value.value = Zero
    /\ (indicator.status = "ok" /\ indicator.kind = "getMomentumSeries")
          => \A k \in 1..Len(indicator.value) :
                LET t == IndexOfDate(candles, indicator.value[k].date)
                IN  /\ t >= indicator.period
                    /\ indicator.value[k].value = CloseDifference(candles, t, indicator.period)
                    /\ candles[t + 1].close = candles[t + 1 - indicator.period].close
                           => indicator.value[k].value = Zero

C14_Witness ==
    /\ indicator.status = "ok"
    /\ indicator.kind = "getMomentumSeries"
    /\ indicator.period >= 2
    /\ Len(indicator.value) >= 2
    /\ indicator.value[1].value = Zero
    /\ RLt(indicator.value[2].value, Zero)
    /\ calcMomentum(candles, indicator.period).value.value = indicator.value[2].value

\* the zero-based indices, from `first` on, of the candles dated on or after fromDate
InWindowIndices(cs, fromDate, first) ==
    {i \in first..(Len(cs) - 1) : cs[i + 1].date >= fromDate}

\* the points are made, in ascending date order and once each, from exactly
\* the candles of the display window with index >= first
WindowedFrom(cs, points, fromDate, first) ==
    /\ {IndexOfDate(cs, points[k].date) : k \in 1..Len(points)}
           = InWindowIndices(cs, fromDate, first)
    /\ Len(points) = Cardinality(InWindowIndices(cs, fromDate, first))
    /\ \A k \in 1..(Len(points) - 1) :
          IndexOfDate(cs, points[k].date) < IndexOfDate(cs, points[k + 1].date)

\* the indicator at zero-based index t, over the candles 0..t of the full series
RsiAt(cs, t, period) == calcRSI(SubSeq(cs, 1, t + 1), period).value
MaAt(cs, t, n) == IF t >= n - 1 THEN ToFixed2(MeanEndingAt(cs, t, n)) ELSE Null

RsiSeriesWindowed(fromDate) ==
    indicator = getRSISeries(candles, indicator.period, fromDate)
    => /\ WindowedFrom(candles, indicator.value, fromDate, indicator.period)
       /\ \A k \in 1..Len(indicator.value) :
             indicator.value[k].value
                 = RsiAt(candles, IndexOfDate(candles, indicator.value[k].date),
                         indicator.period)

MomentumSeriesWindowed(fromDate) ==
    indicator = getMomentumSeries(candles, indicator.period, fromDate)
    => /\ WindowedFrom(candles, indicator.value, fromDate, indicator.period)
       /\ \A k \in 1..Len(indicator.value) :
             indicator.value[k].value
                 = CloseDifference(candles, IndexOfDate(candles, indicator.value[k].date),
                                   indicator.period)

MaValuesOverFullSeries ==
    \A k \in 1..Len(indicator.value) :
        LET pt == indicator.value[k]
            t == IndexOfDate(candles, pt.date)
        IN  /\ pt.close = candles[t + 1].close
            /\ pt.ma20 = MaAt(candles, t, MA20)
            /\ pt.ma60 = MaAt(candles, t, MA60)

\* C15 (as claimed): each series output (price+MA, RSI, momentum) holds, in
\* ascending date order, exactly the candles of the display window whose
\* indicator values are defined, each with the value computed over the full
\* series; no output carries a point with an undefined value.
C15_WindowingAsClaimed ==
    \A fromDate \in FromDates(candles) :
        /\ (indicator.status = "ok" /\ indicator.kind = "getRSISeries")
              => RsiSeriesWindowed(fromDate)
        /\ (indicator.status = "ok" /\ indicator.kind = "getMomentumSeries")
              => MomentumSeriesWindowed(fromDate)
        /\ (/\ indicator.status = "ok"
            /\ indicator.kind = "getCloseWithMovingAveragesSeries"
            /\ indicator = getCloseWithMovingAveragesSeries(candles, fromDate))
              => /\ WindowedFrom(candles, indicator.value, fromDate, MA60 - 1)
                 /\ MaValuesOverFullSeries

\* C15 (amended): the RSI and momentum outputs hold, in ascending date order,
\* exactly the candles of the display window with index >= period, each with
\* the value computed over the full series; the price+MA output holds every
\* candle of the display window with its close, and its ma20 (ma60) is null
\* exactly when the index is below 19 (59) and the full-series average
\* otherwise.
C15_WindowingAmended ==
    \A fromDate \in FromDates(candles) :
        /\ (indicator.status = "ok" /\ indicator.kind = "getRSISeries")
              => RsiSeriesWindowed(fromDate)
        /\ (indicator.status = "ok" /\ indicator.kind = "getMomentumSeries")
              => MomentumSeriesWindowed(fromDate)
        /\ (/\ indicator.status = "ok"
            /\ indicator.kind = "getCloseWithMovingAveragesSeries"
            /\ indicator = getCloseWithMovingAveragesSeries(candles, fromDate))
              => /\ WindowedFrom(candles, indicator.value, fromDate, 0)
                 /\ MaValuesOverFullSeries

C15_Witness ==
    /\ indicator.status = "ok"
    /\ indicator.kind = "getCloseWithMovingAveragesSeries"
    /\ Len(candles) > MA20
    /\ indicator = getCloseWithMovingAveragesSeries(candles, DateOf(2))
    /\ Len(indicator.value) = Len(candles) - 1
    /\ indicator.value[1].ma20 = Null
    /\ indicator.value[Len(indicator.value)].ma20 # Null
    /\ indicator.value[Len(indicator.value)].ma60 = Null
    /\ Len(getRSISeries(candles, MA20, DateOf(2)).value) = Len(candles) - MA20

-----------------------------------------------------------------------------
(* resolveGraphSymbol: the graph's MAIN keyword, the symbol the resolver  *)
(* returns for it, and whether that symbol is a domestic one               *)

TickerSamsungKs == <<"0", "0", "5", "9", "3", "0", ".", "K", "S">>
TickerSamsung == <<"0", "0", "5", "9", "3", "0">>
TickerNvda == <<" ", "N", "V", "D", "A", " ">>
Tickers ==
    {TickerSamsungKs, TickerSamsung, TickerNvda,
     <<".", "K", "S">>,
     <<" ", " ">>,
     <<"1", "2", "3", "4", "5">>,
     <<"1", "2", "3", "4", "5", "6", "7">>,
     <<"A", "A", "P", "L", ".", "K", "R", "X">>,
     <<"X", ".", "K", "o", "s", "p", "i">>,
     <<"X", ".", "K", "O", "S", "D", "A", "Q">>,
     <<"0", "0", "5", "9", "3", "O">>,
     <<"0", "0", "5", "9", "3", "0", "K", "S">>,
     <<"A", ".", "K", "S", ".", "X">>,
     <<"0", "0", "5", "9", "3", "0", ".", "K", "S", ".", "K", "Q">>,
     <<"0", "3", "5", "7", "2", "0", ".", "k", "q">>}

\* JSON values of the resolver's reply
Undefined == [type |-> "undefined"]
Str(chars) == [type |-> "string", chars |-> chars]
Bool(b) == [type |-> "boolean", value |-> b]

\* a ?? b
Coalesce(a, b) == IF a.type \in {"undefined", "null"} THEN b ELSE a

\* completion.choices[0]?.message?.content: text that is no JSON, the JSON
\* text `null`, or a JSON object with some of the four fields
Contents ==
    {[json |-> "invalid"], [json |-> "null"]} \cup
    {[json |-> "object", chosen_symbol |-> cs, symbol |-> sy,
      is_domestic |-> d1, isDomestic |-> d2] :
        cs \in {Undefined} \cup {Str(t) : t \in Tickers},
        sy \in {Undefined, Str(TickerNvda)},
        d1 \in {Undefined, [type |-> "null"], Bool(TRUE), Bool(FALSE), Str(<<"t", "r", "u", "e">>)},
        d2 \in {Undefined, Bool(TRUE), Bool(FALSE)}}

KrxSuffixes ==
    {<<".", "K", "S">>, <<".", "K", "Q">>, <<".", "K", "R", "X">>,
     <<".", "K", "O", "S", "P", "I">>, <<".", "K", "O", "S", "D", "A", "Q">>}

EndsWith(s, suffix) ==
    /\ Len(s) >= Len(suffix)
    /\ SubSeq(s, Len(s) - Len(suffix) + 1, Len(s)) = suffix

\* krxSuffixRegex.test(s): s ends with a suffix, letters of either case
HasKrxSuffix(s) == \E suffix \in KrxSuffixes : EndsWith(ToUpperCase(s), suffix)

KeepSuffix(s) == s
\* s.replace(krxSuffixRegex, ''): s without the suffix it ends with
StripKrxSuffix(s) ==
    IF HasKrxSuffix(s)
    THEN LET suffix == CHOOSE x \in KrxSuffixes : EndsWith(ToUpperCase(s), x)
         IN  SubSeq(s, 1, Len(s) - Len(suffix))
    ELSE s

Digits == {"0", "1", "2", "3", "4", "5", "6", "7", "8", "9"}

\* /^[0-9]{6}$/.test(s)
IsSixDigitKr(s) == Len(s) = 6 /\ \A i \in 1..6 : s[i] \in Digits

\* isSixDigitKr || hasKrxSuffix
InferDomestic(rawSymbol, symbol) ==
    IsSixDigitKr(symbol) \/ HasKrxSuffix(ToUpperCase(rawSymbol))

IsDomesticOf(isDomesticRaw, rawSymbol, symbol) ==
    IF isDomesticRaw.type = "boolean" THEN isDomesticRaw.value
    ELSE InferDomestic(rawSymbol, symbol)

\* node rows of the graph as the graph-saving transaction writes them:
\* trimmed non-empty names, one row per name, at most one MAIN
NodeStores ==
    {{},
     {[name |-> <<"a">>, weight |-> One, kind |-> "MAIN"]},
     {[name |-> <<"a">>, weight |-> Half, kind |-> "SUB"]},
     {[name |-> <<"a">>, weight |-> Half, kind |-> "MAIN"],
      [name |-> <<"b">>, weight |-> One, kind |-> "SUB"]},
     {[name |-> <<"a">>, weight |-> One, kind |-> "SUB"],
      [name |-> <<"b">>, weight |-> One, kind |-> "SUB"]},
     {[name |-> <<"a">>, weight |-> Half, kind |-> "SUB"],
      [name |-> <<"b">>, weight |-> One, kind |-> "SUB"]}}

\* nodes.find(kind === 'MAIN') ?? nodes[0] under orderBy kind asc, weight
\* desc: the MAIN row, else a row of the greatest weight
MainNodes(nodes) ==
    IF \E n \in nodes : n.kind = "MAIN" THEN {n \in nodes : n.kind = "MAIN"}
    ELSE {n \in nodes : \A m \in nodes : RLe(m.weight, n.weight)}

NotFound(msg) == [status |-> "NotFound", message |-> msg]
InternalServerError(msg) == [status |-> "InternalServerError", message |-> msg]

NoParse == [done |-> FALSE, parsed |-> FALSE]
Parsed(content, rawSymbol) ==
    [done |-> FALSE, parsed |-> TRUE, content |-> content, rawSymbol |-> rawSymbol]

\* steps 5 and 6: the reply is parsed and turned into {symbol, isDomestic}
ResolveReply(graphId, mainKeyword, allKeywords, content) ==
    IF content.json = "invalid"
    THEN /\ response' = InternalServerError("Failed to parse OpenAI response as JSON")
         /\ calc' = NoParse
    ELSE IF content.json = "null"
    THEN /\ response' = InternalServerError("TypeError")
         /\ calc' = NoParse
    ELSE LET chosen == Coalesce(Coalesce(content.chosen_symbol, content.symbol), Str(<<>>))
             rawSymbol == Trim(chosen.chars)
             symbol == StripKrxSuffix(rawSymbol)
             isDomesticRaw == Coalesce(content.is_domestic, content.isDomestic)
         IN  IF rawSymbol = <<>>
             THEN /\ response' = InternalServerError("OpenAI did not return a stock symbol")
                  /\ calc' = Parsed(content, rawSymbol)
             ELSE /\ response' =
                     [status |-> "ok", graphId |-> graphId, mainKeyword |-> mainKeyword,
                      allKeywords |-> allKeywords, symbol |-> symbol,
                      isDomestic |-> IsDomesticOf(isDomesticRaw, rawSymbol, symbol)]
                  /\ calc' = Parsed(content, rawSymbol)

resolveGraphSymbol ==
    /\ response = NoResponse
    /\ UNCHANGED <<graphRows, nodeRows, edgeRows, newsRows>>
    /\ UNCHANGED <<kisVars, asyncVars>>
    /\ \E user \in UserInputs : \E graphId \in GraphIdInputs :
          LET userId == Trim(user)
              nodes == nodeRows
              \* nodes.map(name.trim()).filter(non-empty), without duplicates
              allKeywords == {Trim(n.name) : n \in {m \in nodes : Trim(m.name) # <<>>}}
          IN  IF userId = <<>>
              THEN /\ response' = BadRequest("user id is required")
                   /\ reads' = <<>>
                   /\ calc' = NoParse
              ELSE IF graphId <= 0
              THEN /\ response' = BadRequest("graphId is required")
                   /\ reads' = <<>>
                   /\ calc' = NoParse
              ELSE IF ~\E g \in graphRows : g.id = graphId /\ g.userID = userId
              THEN /\ response' = NotFound("graph not found for this user")
                   /\ reads' = <<"graph">>
                   /\ calc' = NoParse
              ELSE IF nodes = {}
              THEN /\ response' = BadRequest("graph has no nodes")
                   /\ reads' = <<"graph", "node">>
                   /\ calc' = NoParse
              ELSE \E mainNode \in MainNodes(nodes) :
                     LET mainKeyword == Trim(mainNode.name)
                     IN  IF mainKeyword = <<>>
                         THEN /\ response' = BadRequest("main keyword is empty")
                              /\ reads' = <<"graph", "node">>
                              /\ calc' = NoParse
                         ELSE /\ reads' = <<"graph", "node", "openai">>
                              /\ \E content \in Contents :
                                    ResolveReply(graphId, mainKeyword, allKeywords, content)

InitResolve ==
    /\ graphRows = {[id |-> GraphId, userID |-> Owner]}
    /\ nodeRows \in NodeStores
    /\ edgeRows = {}
    /\ newsRows = [k \in EdgeKeys |-> 0]
    /\ response = NoResponse
    /\ reads = <<>>
    /\ calc = NoCalc
    /\ candles = NoCandles
    /\ indicator = NoIndicator
    /\ Quiescent

NextResolve ==
    \/ resolveGraphSymbol
    \/ Respond

SpecResolve == InitResolve /\ [][NextResolve]_vars

-----------------------------------------------------------------------------
(* Claims about resolveGraphSymbol *)


\* the reply was parsed and its trimmed ticker is `raw`
RawTickerIs(raw) == response.status # "none" /\ calc.parsed /\ calc.rawSymbol = raw

\* the booleans the reply carries as is_domestic or isDomestic
BooleansSupplied ==
    {f.value : f \in {g \in {calc.content.is_domestic, calc.content.isDomestic} :
                        g.type = "boolean"}}

\* C16 (as claimed): whenever the raw ticker is "005930.KS" the result is
\* symbol "005930" with isDomestic = true.
C16_SuffixStrippedAsClaimed ==
    RawTickerIs(TickerSamsungKs) =>
        /\ response.status = "ok"
        /\ response.symbol = TickerSamsung
        /\ response.isDomestic = TRUE

\* C16 (amended): whenever the raw ticker is "005930.KS" the result is symbol
\* "005930", with isDomestic = true when the reply carries no boolean false
\* as is_domestic or isDomestic.
C16_SuffixStrippedAmended ==
    RawTickerIs(TickerSamsungKs) =>
        /\ response.status = "ok"
        /\ response.symbol = TickerSamsung
        /\ FALSE \notin BooleansSupplied => response.isDomestic = TRUE

C16_Witness ==
    /\ RawTickerIs(TickerSamsungKs)
    /\ calc.content.is_domestic = Undefined
    /\ calc.content.isDomestic = Undefined
    /\ response.status = "ok"
    /\ response.symbol = TickerSamsung
    /\ response.isDomestic = TRUE

\* the last Len(suffix) characters of s are the suffix, in either case
EndsWithIgnoringCase(s, suffix) ==
    /\ Len(s) >= Len(suffix)
    /\ \A i \in 1..Len(suffix) :
          ToUpperChar(s[Len(s) - Len(suffix) + i]) = suffix[i]

SuffixOf(s) == {suffix \in KrxSuffixes : EndsWithIgnoringCase(s, suffix)}

SuffixStripped(s) ==
    IF SuffixOf(s) = {} THEN s
    ELSE SubSeq(s, 1, Len(s) - Len(CHOOSE suffix \in SuffixOf(s) : TRUE))

\* C17: with no boolean is_domestic/isDomestic in the reply, isDomestic is
\* true exactly when the suffix-stripped symbol is a 6-digit number or the raw
\* ticker ends with .KS/.KQ/.KRX/.KOSPI/.KOSDAQ in either case; a boolean that
\* the reply supplies is returned unchanged.
C17_DomesticInference ==
    (response.status = "ok" /\ calc.parsed) =>
        IF BooleansSupplied = {}
        THEN response.isDomestic
                 = (\/ (/\ Len(SuffixStripped(calc.rawSymbol)) = 6
                        /\ \A i \in 1..6 : SuffixStripped(calc.rawSymbol)[i] \in Digits)
                    \/ SuffixOf(calc.rawSymbol) # {})
        ELSE response.isDomestic \in BooleansSupplied

\* the reply carries a symbol that can be used
UsableSymbol ==
    /\ calc.parsed
    /\ Trim(Coalesce(Coalesce(calc.content.chosen_symbol, calc.content.symbol),
                     Str(<<>>)).chars) # <<>>

\* C18: a result is returned only when the reply carries a usable symbol, the
\* graph has nodes and the MAIN keyword is not empty; every result carries a
\* non-empty symbol.
C18_FailsWithoutSymbol ==
    response.status = "ok" =>
        /\ UsableSymbol
        /\ nodeRows # {}
        /\ response.mainKeyword # <<>>
        /\ response.symbol # <<>>

-----------------------------------------------------------------------------
(* The indicator queries of AnalysisController: each handler picks the     *)
(* domestic path (KisService) or the foreign path (AnalysisService)        *)

QuerySymbols ==
    {Undefined, Str(<<>>), Str(<<" ">>), Str(<<"n", "v", "d", "a">>), Str(TickerSamsung)}
QueryFlags ==
    {Undefined, Str(<<"t", "r", "u", "e">>), Str(<<"T", "R", "U", "E">>),
     Str(<<"f", "a", "l", "s", "e">>)}
QueryPeriods == {Undefined, Str(<<"0">>), Str(<<"x">>), Str(<<"2">>), Str(<<"1", "4">>)}

\* parseIsDomestic: false when absent, else the text is "true" in any case
parseIsDomestic(isDomestic) ==
    IF isDomestic.type \in {"undefined", "null"} THEN FALSE
    ELSE ToLowerCase(isDomestic.chars) = <<"t", "r", "u", "e">>

\* Number(chars) for a text of decimal digits
RECURSIVE DecimalValue(_)
DecimalValue(chars) ==
    LET digits == <<"0", "1", "2", "3", "4", "5", "6", "7", "8", "9">>
        last == CHOOSE v \in 0..9 : digits[v + 1] = chars[Len(chars)]
    IN  IF chars = <<>> THEN 0
        ELSE 10 * DecimalValue(SubSeq(chars, 1, Len(chars) - 1)) + last

\* Number(period) || fallback, with the parameter default for an absent period
PeriodOf(period, fallback) ==
    IF period.type = "undefined" THEN fallback
    ELSE IF \A i \in 1..Len(period.chars) : period.chars[i] \in Digits
         THEN (IF DecimalValue(period.chars) = 0 THEN fallback
               ELSE DecimalValue(period.chars))
         ELSE fallback

\* normalizeSymbol: the trimmed symbol in upper case, <<>> when it throws
normalizeSymbol(symbol) == ToUpperCase(Trim(Coalesce(symbol, Str(<<>>)).chars))

Answer(value) == [status |-> "ok", value |-> value]

\* candle series the vendor may return for a query
QueryCandles ==
    {CandlesOf(<<2>>), CandlesOf(<<1, 2, 1>>), CandlesOf(<<1, 2, 1, 3>>),
     CandlesOf([i \in 1..15 |-> 9 + i])}

\* getAccessToken: no request while the cached token is valid
TokenIo(cached) == IF cached THEN <<>> ELSE <<"kis.token">>

\* the KisService series methods: token, candle fetch, then the engine
DomesticSeries(handler, period) ==
    \/ /\ response' = InternalServerError("KIS token")
       /\ reads' = <<"kis.token">>
       /\ UNCHANGED <<kisVars, asyncVars>>
    \/ \E cached \in BOOLEAN :
          /\ response' \in {InternalServerError("KIS candles"),
                            InternalServerError("no candles")}
          /\ reads' = TokenIo(cached) \o <<"kis.candles">>
          /\ UNCHANGED <<kisVars, asyncVars>>
    \/ \E cached \in BOOLEAN : \E cs \in QueryCandles : \E fromDate \in FromDates(cs) :
          LET result ==
                 IF handler = "getPriceWithMa"
                 THEN getCloseWithMovingAveragesSeries(cs, fromDate)
                 ELSE IF handler = "getRsi" THEN getRSISeries(cs, period, fromDate)
                 ELSE getMomentumSeries(cs, period, fromDate)
          IN  /\ candles' = cs
              /\ indicator' = result
              /\ reads' = TokenIo(cached) \o <<"kis.candles">>
              /\ response' = IF result.status = "ok" THEN Answer(result.value)
                             ELSE [status |-> "InternalServerError", message |-> "shortfall",
                                   kind |-> result.kind]

\* summarizeStockInvestmentOpinionsLastMonth: token, opinions, stock name
DomesticOpinions ==
    /\ UNCHANGED <<kisVars, asyncVars>>
    /\ \/ /\ response' = InternalServerError("KIS token")
          /\ reads' = <<"kis.token">>
       \/ \E cached \in BOOLEAN :
             /\ response' = InternalServerError("KIS opinions")
             /\ reads' = TokenIo(cached) \o <<"kis.opinions">>
       \/ \E cached \in BOOLEAN :
             /\ response' = Answer("summary")
             /\ reads' = TokenIo(cached) \o <<"kis.opinions", "kis.stockName">>

\* the AnalysisService methods: normalizeSymbol, then the vendor
ForeignPath(symbol, vendor) ==
    /\ UNCHANGED <<kisVars, asyncVars>>
    /\ IF normalizeSymbol(symbol) = <<>>
       THEN /\ response' = BadRequest("symbol is required")
            /\ reads' = <<>>
       ELSE /\ reads' = <<vendor>>
            /\ response' \in {Answer(vendor), InternalServerError(vendor)}

Serve(handler, symbol, isDomestic, period, vendor) ==
    /\ calc' = [done |-> FALSE, handler |-> handler, symbol |-> symbol,
                domestic |-> parseIsDomestic(isDomestic), period |-> period]
    /\ UNCHANGED <<graphRows, nodeRows, edgeRows, newsRows, asyncVars>>
    /\ IF parseIsDomestic(isDomestic)
       THEN IF handler = "getRecommendation" THEN DomesticOpinions
            ELSE DomesticSeries(handler, period)
       ELSE ForeignPath(symbol, vendor)

getPriceWithMa ==
    /\ response = NoResponse
    /\ \E symbol \in QuerySymbols : \E isDomestic \in QueryFlags :
          Serve("getPriceWithMa", symbol, isDomestic, 0, "alpha.closes")

getRsi ==
    /\ response = NoResponse
    /\ \E symbol \in QuerySymbols : \E isDomestic \in QueryFlags : \E period \in QueryPeriods :
          Serve("getRsi", symbol, isDomestic, PeriodOf(period, 14), "alpha.rsi")

getMomentum ==
    /\ response = NoResponse
    /\ \E symbol \in QuerySymbols : \E isDomestic \in QueryFlags : \E period \in QueryPeriods :
          Serve("getMomentum", symbol, isDomestic, PeriodOf(period, 10), "alpha.mom")

getRecommendation ==
    /\ response = NoResponse
    /\ \E symbol \in QuerySymbols : \E isDomestic \in QueryFlags :
          Serve("getRecommendation", symbol, isDomestic, 0, "finnhub.recommendation")

\* the caller takes the answer; the fetched candles are dropped with it
Finish ==
    /\ response # NoResponse
    /\ response' = NoResponse
    /\ reads' = <<>>
    /\ calc' = NoCalc
    /\ candles' = NoCandles
    /\ indicator' = NoIndicator
    /\ UNCHANGED <<graphRows, nodeRows, edgeRows, newsRows, asyncVars>>

InitQuery ==
    /\ graphRows = {}
    /\ nodeRows = {}
    /\ edgeRows = {}
    /\ newsRows = [k \in EdgeKeys |-> 0]
    /\ response = NoResponse
    /\ reads = <<>>
    /\ calc = NoCalc
    /\ candles = NoCandles
    /\ indicator = NoIndicator
    /\ Quiescent

NextQuery ==
    \/ getPriceWithMa
    \/ getRsi
    \/ getMomentum
    \/ getRecommendation
    \/ Finish

SpecQuery == InitQuery /\ [][NextQuery]_vars

\* the request carries no symbol: absent, empty or blank
SymbolMissing == Trim(Coalesce(calc.symbol, Str(<<>>)).chars) = <<>>

IsIo(step) == step \in {"kis.token", "kis.candles", "kis.opinions", "kis.stockName",
                        "alpha.closes", "alpha.rsi", "alpha.mom", "finnhub.recommendation"}

\* C19: a price-MA, RSI, momentum or recommendation query without a symbol
\* ends, on the foreign and on the domestic path, in a validation error with
\* no I/O issued before it; an insufficient-history error comes only after a
\* candle fetch.
C19_ValidationBeforeIo ==
    response.status # "none" =>
        /\ SymbolMissing =>
              /\ response.status = "BadRequest"
              /\ \A i \in 1..Len(reads) : ~IsIo(reads[i])
        /\ (response.status = "InternalServerError" /\ response.message = "shortfall")
              => \E i \in 1..Len(reads) : reads[i] = "kis.candles"

-----------------------------------------------------------------------------
(* getWingScoreByGraph over a store that holds graphs of several owners:   *)
(* every row carries the userID and the graphId it was saved under         *)

Users == {Owner, Other}

\* responses of the graph-construction service saved into the shared store
OwnedAiResponses ==
    LET OneEdge(label, articles) ==
            <<[source |-> "A", target |-> "B", sentiment_label |-> label,
               sentiment_score |-> One, articles |-> articles]>>
    IN
    {[nodes |-> NodeList(<<One>>), edges |-> OneEdge(LabelPositiveRaw, 2)],
     [nodes |-> NodeList(<<Half, One>>), edges |-> OneEdge(LabelNegativeRaw, 1)],
     [nodes |-> NodeList(<<One>>), edges |-> OneEdge(LabelPositiveRaw, 0)],
     [nodes |-> NodeList(<<>>), edges |-> <<>>]}

NewsKeys == {<<u, g, k[1], k[2]>> : u \in Users, g \in 1..(MaxGraphs + 1), k \in EdgeKeys}

Store == [graph |-> graphRows, node |-> nodeRows, edge |-> edgeRows, news |-> newsRows]

\* graph.create({userID: uid}), then the upserts and news.createMany under graphId
saveOwnedGraph ==
    /\ response = NoResponse
    /\ Cardinality(graphRows) < MaxGraphs
    /\ \E uid \in Users : \E ai \in OwnedAiResponses :
          LET graphId == Cardinality(graphRows) + 1
          IN  /\ graphRows' = graphRows \cup {[id |-> graphId, userID |-> uid]}
              /\ nodeRows' = nodeRows \cup
                    {[userID |-> uid, graphId |-> graphId, name |-> n.name,
                      weight |-> n.weight] : n \in NodePairsOf(ai.nodes)}
              /\ edgeRows' = edgeRows \cup
                    {[userID |-> uid, graphId |-> graphId, startPoint |-> e.startPoint,
                      endPoint |-> e.endPoint, sentiment_label |-> e.sentiment_label,
                      sentiment_score |-> e.sentiment_score] : e \in EdgePairsOf(ai.edges)}
              /\ newsRows' = [k \in NewsKeys |->
                    IF k[1] = uid /\ k[2] = graphId
                    THEN NewsRowsOf(ai.edges)[<<k[3], k[4]>>] ELSE newsRows[k]]
    /\ UNCHANGED <<response, reads, calc>>
    /\ UNCHANGED <<kisVars, asyncVars>>

\* news, edge and node deleteMany({where: {userID}}); the graph rows stay
clearUserGraph ==
    /\ response = NoResponse
    /\ \E userID \in Users :
          /\ \E n \in nodeRows : n.userID = userID
          /\ newsRows' = [k \in NewsKeys |-> IF k[1] = userID THEN 0 ELSE newsRows[k]]
          /\ edgeRows' = {e \in edgeRows : e.userID # userID}
          /\ nodeRows' = {n \in nodeRows : n.userID # userID}
    /\ UNCHANGED <<graphRows, response, reads, calc>>
    /\ UNCHANGED <<kisVars, asyncVars>>

GraphOfAnyUser(store, userId, graphId) == {g \in store.graph : g.id = graphId}

\* graph.findFirst({where: {id: graphId, userID: userId}})
GraphOf(store, userId, graphId) ==
    {g \in store.graph : g.id = graphId /\ g.userID = userId}

\* edge.findMany({where: {userID: userId, graphId}})
EdgesOf(store, userId, graphId) ==
    {[startPoint |-> e.startPoint, endPoint |-> e.endPoint,
      sentiment_label |-> e.sentiment_label, sentiment_score |-> e.sentiment_score] :
        e \in {x \in store.edge : x.userID = userId /\ x.graphId = graphId}}

\* node.findMany({where: {userID: userId, graphId}})
NodesOf(store, userId, graphId) ==
    {[name |-> n.name, weight |-> n.weight] :
        n \in {x \in store.node : x.userID = userId /\ x.graphId = graphId}}

\* news.count and news.groupBy({where: {userID: userId, graphId}})
NewsOf(store, userId, graphId) ==
    [k \in EdgeKeys |->
        IF <<userId, graphId, k[1], k[2]>> \in DOMAIN store.news
        THEN store.news[<<userId, graphId, k[1], k[2]>>] ELSE 0]

\* the response of getWingScoreByGraph and the queries it issues, for a store
WingScoreIn(store, user, graphId) ==
    LET userId == Trim(user)
        edges == EdgesOf(store, userId, graphId)
        nodes == NodesOf(store, userId, graphId)
        news == NewsOf(store, userId, graphId)
    IN  IF userId = <<>>
        THEN [response |-> BadRequest("user id is required"), reads |-> <<>>]
        ELSE IF graphId <= 0
        THEN [response |-> BadRequest("graphId is required"), reads |-> <<>>]
        ELSE IF GraphOf(store, userId, graphId) = {}
        THEN [response |-> BadRequest("graph not found for this user"),
              reads |-> <<"graph">>]
        ELSE IF NoEdges(edges)
        THEN [response |-> Ok(graphId, 0), reads |-> <<"graph", "edge">>]
        ELSE IF NoNews(TotalNews(news))
        THEN [response |-> Ok(graphId, 0), reads |-> <<"graph", "edge", "news.count">>]
        ELSE [response |-> Ok(graphId, WingCalc(edges, nodes, news).wingScore),
              reads |-> <<"graph", "edge", "news.count", "node", "news.groupBy">>]

getWingScoreOfOwner ==
    /\ response = NoResponse
    /\ \E user \in UserInputs : \E graphId \in 0..(MaxGraphs + 1) :
          /\ response' = WingScoreIn(Store, user, graphId).response
          /\ reads' = WingScoreIn(Store, user, graphId).reads
          /\ calc' = [done |-> FALSE, user |-> user, graphId |-> graphId]
    /\ UNCHANGED <<graphRows, nodeRows, edgeRows, newsRows>>
    /\ UNCHANGED <<kisVars, asyncVars>>

InitOwned ==
    /\ graphRows = {}
    /\ nodeRows = {}
    /\ edgeRows = {}
    /\ newsRows = [k \in NewsKeys |-> 0]
    /\ response = NoResponse
    /\ reads = <<>>
    /\ calc = NoCalc
    /\ candles = NoCandles
    /\ indicator = NoIndicator
    /\ Quiescent

NextOwned ==
    \/ saveOwnedGraph
    \/ clearUserGraph
    \/ getWingScoreOfOwner
    \/ Respond

SpecOwned == InitOwned /\ [][NextOwned]_vars

\* the store without the rows saved under another owner or another graph
OnlyRowsOf(userId, graphId) ==
    [graph |-> {g \in graphRows : g.userID = userId /\ g.id = graphId},
     node |-> {n \in nodeRows : n.userID = userId /\ n.graphId = graphId},
     edge |-> {e \in edgeRows : e.userID = userId /\ e.graphId = graphId},
     news |-> [k \in NewsKeys |->
                 IF k[1] = userId /\ k[2] = graphId THEN newsRows[k] ELSE 0]]

Answered == response.status # "none"

\* the request names a user and a graph id, and that user owns no such graph
NotOwned ==
    /\ Trim(calc.user) # <<>>
    /\ calc.graphId > 0
    /\ ~\E g \in graphRows : g.id = calc.graphId /\ g.userID = Trim(calc.user)

StoreReads == {"edge", "node", "news.count", "news.groupBy"}

\* C20: when no graph with the requested id belongs to the requesting user,
\* getWingScoreByGraph fails with the not-found-for-this-user error and has
\* read no edge, node or news row; when it succeeds, its result is the one
\* it gives on the store reduced to the rows of that owner and graph id.
C20_OwnerScoped ==
    Answered =>
        /\ NotOwned =>
              /\ response = BadRequest("graph not found for this user")
              /\ \A i \in 1..Len(reads) : reads[i] \notin StoreReads
        /\ response.status = "ok" =>
              response = WingScoreIn(OnlyRowsOf(Trim(calc.user), calc.graphId),
                                     calc.user, calc.graphId).response

\* the other owner asks for a graph of the owner while both own graphs with
\* edges and news, and is refused; the owner gets a score of that graph
C20_Witness ==
    /\ Answered
    /\ \E g \in graphRows : g.userID = Owner /\ g.id = calc.graphId
    /\ \E e \in edgeRows : e.userID = Other /\ newsRows[<<Other, e.graphId, "A", "B">>] > 0
    /\ \E e \in edgeRows : e.userID = Owner /\ newsRows[<<Owner, e.graphId, "A", "B">>] > 0
    /\ Trim(calc.user) = Other
    /\ response.status = "BadRequest"

\* the Edge rows of the graph over the node pair {a, b}, in either orientation
EdgeRowsOfPair(a, b) ==
    {e \in edgeRows : {e.startPoint, e.endPoint} = {a, b}}

\* C22: after saveGraphForUser the store holds at most one Edge row per
\* graph and unordered node pair, also when the response of the
\* graph-construction service lists both (A, B) and (B, A).
C22_EdgeUniquePerUnorderedPair ==
    \A e \in edgeRows : Cardinality(EdgeRowsOfPair(e.startPoint, e.endPoint)) <= 1

\* the value the loop of getRSISeries assigns to the last index of the candles
LastOfRsiArr(cs, period) ==
    LET rsiArr == RsiLoop(Closes(cs), period, Len(cs) - 1)
    IN  rsiArr[Len(rsiArr)].rsi

\* C29: for a series of more than `period` candles, calcRSI(candles, period)
\* equals the value that the loop of getRSISeries assigns to the last index
\* of the same candles, and so the last point getRSISeries publishes.
C29_RsiFormsAgree ==
    /\ (indicator.status = "ok" /\ indicator.kind = "calcRSI") =>
          indicator.value = LastOfRsiArr(candles, indicator.period)
    /\ (indicator.status = "ok" /\ indicator.kind = "getRSISeries"
        /\ indicator.value # <<>>) =>
          indicator.value[Len(indicator.value)].value
              = calcRSI(candles, indicator.period).value

\* calcRSI of a series that is smoothed after the seed, to a value that is
\* neither the saturated 100 nor the RSI of the seed
C29_Witness ==
    /\ indicator.status = "ok" /\ indicator.kind = "calcRSI"
    /\ Len(candles) > indicator.period + 1
    /\ indicator.value # RInt(100)
    /\ indicator.value # RsiLoop(Closes(candles), indicator.period, indicator.period)[1].rsi

-----------------------------------------------------------------------------
(* summarizeStockInvestmentOpinionsLastMonth: the vendor's opinion records *)
(* counted into the {buy, hold, sell, ...} shape                           *)

\* rows of data.output: invt_opnn_cls_code and stck_bsop_date may be absent
OpinionRows ==
    {[invt_opnn_cls_code |-> Undefined, stck_bsop_date |-> Str(<<>>)]} \cup
    {[invt_opnn_cls_code |-> Str(c), stck_bsop_date |-> d] :
        c \in {<<"1">>, <<"2">>, <<"3">>, <<"5">>},
        d \in {Undefined,
               Str(<<"2", "0", "2", "4", "0", "1", "0", "5">>),
               Str(<<"2", "0", "2", "3", "1", "2", "3", "1">>),
               Str(<<"2", "0", "2", "4", "0", "1">>)}}

\* data.output: no array, or an array of up to MaxOpinions rows
OpinionOutputs ==
    {Undefined} \cup
    {[type |-> "array", rows |-> rows] :
        rows \in UNION {[1..n -> OpinionRows] : n \in 0..MaxOpinions}}

\* a < b on strings of digits: code units compared left to right
RECURSIVE StringLess(_, _)
StringLess(a, b) ==
    LET code(c) == CHOOSE v \in 0..9 :
                       <<"0", "1", "2", "3", "4", "5", "6", "7", "8", "9">>[v + 1] = c
    IN  IF b = <<>> THEN FALSE
        ELSE IF a = <<>> THEN TRUE
        ELSE IF Head(a) = Head(b) THEN StringLess(Tail(a), Tail(b))
        ELSE code(Head(a)) < code(Head(b))

\* every row counted, whatever its class code
CountEveryRow(output, cls) == Len(output)

\* the counter of one class code after the loop
CountClass(output, cls) ==
    Cardinality({i \in 1..Len(output) : output[i].invt_opnn_cls_code = Str(cls)})

\* earliestDate after the loop over the rows from index i on
RECURSIVE EarliestDate(_, _, _)
EarliestDate(output, i, earliestDate) ==
    IF i > Len(output) THEN earliestDate
    ELSE LET d == output[i].stck_bsop_date
             dated == d.type = "string" /\ d.chars # <<>> /\ Len(d.chars) = 8
         IN  IF dated /\ (earliestDate.type = "null"
                          \/ StringLess(d.chars, earliestDate.chars))
             THEN EarliestDate(output, i + 1, d)
             ELSE EarliestDate(output, i + 1, earliestDate)

\* slice(0, 4) + '-' + slice(4, 6) + '-' + slice(6, 8)
HyphenYmd(ymd) ==
    SubSeq(ymd, 1, 4) \o <<"-">> \o SubSeq(ymd, 5, 6) \o <<"-">> \o SubSeq(ymd, 7, 8)

\* steps 2, 3 and 5 of the summary for data.output and getLastMonthRange().from
SummaryOf(dataOutput, from, symbol) ==
    LET output == IF dataOutput.type = "array" THEN dataOutput.rows ELSE <<>>
        earliestDate == EarliestDate(output, 1, [type |-> "null"])
        periodYmd == IF earliestDate.type = "null" THEN from ELSE earliestDate.chars
    IN  [buy |-> CountClass(output, <<"2">>),
         hold |-> CountClass(output, <<"3">>),
         sell |-> CountClass(output, <<"1">>),
         strongBuy |-> 0, strongSell |-> 0,
         period |-> HyphenYmd(periodYmd), symbol |-> symbol]

\* the window start, 30 days before the day of the call, as 'YYYYMMDD'
WindowStarts == {<<"2", "0", "2", "3", "1", "2", "2", "0">>}

summarizeStockInvestmentOpinionsLastMonth ==
    /\ response = NoResponse
    /\ UNCHANGED <<graphRows, nodeRows, edgeRows, newsRows>>
    /\ UNCHANGED <<kisVars, asyncVars>>
    /\ \E cached \in BOOLEAN :
          \/ /\ response' = InternalServerError("KIS opinions")
             /\ reads' = TokenIo(cached) \o <<"kis.opinions">>
             /\ calc' = NoCalc
          \/ \E dataOutput \in OpinionOutputs : \E from \in WindowStarts :
                /\ calc' = [done |-> FALSE, output |-> dataOutput, from |-> from]
                /\ \/ /\ response' = InternalServerError("KIS stock name")
                      /\ reads' = TokenIo(cached) \o <<"kis.opinions", "kis.stockName">>
                   \/ /\ response' = Answer(SummaryOf(dataOutput, from, "name"))
                      /\ reads' = TokenIo(cached) \o <<"kis.opinions", "kis.stockName">>

NextOpinions ==
    \/ summarizeStockInvestmentOpinionsLastMonth
    \/ Respond

SpecOpinions == Init /\ [][NextOpinions]_vars

\* the rows of the answer that was summarised
SummarisedRows == IF calc.output.type = "array" THEN calc.output.rows ELSE <<>>

Summarised == response.status = "ok" /\ calc # NoCalc

RowsWithCode(cls) ==
    {i \in 1..Len(SummarisedRows) :
        SummarisedRows[i].invt_opnn_cls_code = [type |-> "string", chars |-> cls]}

\* the 8-character dates of the summarised rows
OpinionDates ==
    {SummarisedRows[i].stck_bsop_date.chars :
        i \in {j \in 1..Len(SummarisedRows) :
                 /\ SummarisedRows[j].stck_bsop_date.type = "string"
                 /\ Len(SummarisedRows[j].stck_bsop_date.chars) = 8}}

\* a 'YYYYMMDD' text as the number YYYYMMDD
YmdNumber(ymd) == DecimalValue(ymd)

-----------------------------------------------------------------------------
(* saveGraphForUser and deleteGraphForUser as concurrent calls: each call  *)
(* is a sequence of awaited statements, and other calls run between them   *)

\* the rows a News, Edge and Node deleteMany({where: {userID: uid, graphId}}) matches
ChildRows(uid, graphId) ==
    [node |-> {n \in nodeRows : n.userID = uid /\ n.graphId = graphId},
     edge |-> {e \in edgeRows : e.userID = uid /\ e.graphId = graphId},
     news |-> {k \in NewsKeys : k[1] = uid /\ k[2] = graphId /\ newsRows[k] > 0}]

NoRows == [node |-> {}, edge |-> {}, news |-> {}]

\* the Node, Edge and News rows stored under a graph id
RowsOfGraph(graphId) ==
    [node |-> {n \in nodeRows : n.graphId = graphId},
     edge |-> {e \in edgeRows : e.graphId = graphId},
     news |-> {k \in NewsKeys : k[2] = graphId /\ newsRows[k] > 0}]

ReferencesAnything(graphId) == TRUE

\* strict parent-child ownership: a Node, Edge or News row is stored only
\* under the id of a Graph row that exists
ReferencesGraph(graphId) == \E g \in graphRows : g.id = graphId

\* a call that has ended, and how
Ended(op, uid, graphId, status) ==
    calc' = [calc EXCEPT !.ended = @ \cup
                {[op |-> op, uid |-> uid, graphId |-> graphId, status |-> status]}]

\* uid is not blank: graph.create({data: {userID: uid, name}}), before the crawl
saveGraphForUserCreate ==
    /\ graphSeq < MaxSaves
    /\ \E uid \in Users :
          /\ graphSeq' = graphSeq + 1
          /\ graphRows' = graphRows \cup {[id |-> graphSeq + 1, userID |-> uid]}
          /\ pending' = pending \cup
                {[op |-> "save", uid |-> uid, graphId |-> graphSeq + 1, seen |-> NoRows]}
    /\ UNCHANGED <<nodeRows, edgeRows, newsRows, response, reads, calc>>
    /\ UNCHANGED <<kisVars, cacheVars>>

\* crawlNewsByKeywords throws, or the graph-construction service answers
\* with a status that is not OK
saveGraphForUserThrow ==
    /\ \E call \in pending :
          /\ call.op = "save"
          /\ pending' = pending \ {call}
          /\ \E status \in {"InternalServerError", "BadRequest"} :
                Ended("save", call.uid, call.graphId, status)
    /\ UNCHANGED <<graphRows, nodeRows, edgeRows, newsRows, response, reads>>
    /\ UNCHANGED <<kisVars, cacheVars, graphSeq>>

\* prisma.$transaction: the node and edge upserts and news.createMany, all or none
saveGraphForUserTransaction ==
    /\ \E call \in pending :
       \E ai \in {r \in OwnedAiResponses : Len(r.nodes) # 1} :
          /\ call.op = "save"
          /\ pending' = pending \ {call}
          /\ IF ReferencesGraph(call.graphId)
             THEN /\ nodeRows' = nodeRows \cup
                        {[userID |-> call.uid, graphId |-> call.graphId, name |-> n.name,
                          weight |-> n.weight] : n \in NodePairsOf(ai.nodes)}
                  /\ edgeRows' = edgeRows \cup
                        {[userID |-> call.uid, graphId |-> call.graphId,
                          startPoint |-> e.startPoint, endPoint |-> e.endPoint,
                          sentiment_label |-> e.sentiment_label,
                          sentiment_score |-> e.sentiment_score] :
                              e \in EdgePairsOf(ai.edges)}
                  /\ newsRows' = [k \in NewsKeys |->
                        IF k[1] = call.uid /\ k[2] = call.graphId
                        THEN NewsRowsOf(ai.edges)[<<k[3], k[4]>>] ELSE newsRows[k]]
                  /\ Ended("save", call.uid, call.graphId, "ok")
             ELSE /\ UNCHANGED <<nodeRows, edgeRows, newsRows>>
                  /\ Ended("save", call.uid, call.graphId, "InternalServerError")
    /\ UNCHANGED <<graphRows, response, reads>>
    /\ UNCHANGED <<kisVars, cacheVars, graphSeq>>

\* the validation of uid and graphId, then graph.findFirst({where: {id, userID}})
deleteGraphForUserFind ==
    /\ \E uid \in Users : \E graphId \in 0..graphSeq :
          IF graphId <= 0
          THEN /\ Ended("delete", uid, graphId, "BadRequest")
               /\ UNCHANGED pending
          ELSE IF GraphOf(Store, uid, graphId) = {}
          THEN /\ Ended("delete", uid, graphId, "NotFound")
               /\ UNCHANGED pending
          ELSE /\ pending' = pending \cup
                     {[op |-> "find", uid |-> uid, graphId |-> graphId, seen |-> NoRows]}
               /\ UNCHANGED calc
    /\ UNCHANGED <<graphRows, nodeRows, edgeRows, newsRows, response, reads>>
    /\ UNCHANGED <<kisVars, cacheVars, graphSeq>>

\* in the transaction: news, edge and node deleteMany, on the rows committed by then
deleteGraphForUserChildren ==
    /\ \E call \in pending :
          /\ call.op = "find"
          /\ pending' = (pending \ {call}) \cup
                {[op |-> "delete", uid |-> call.uid, graphId |-> call.graphId,
                  seen |-> ChildRows(call.uid, call.graphId)]}
    /\ UNCHANGED <<graphRows, nodeRows, edgeRows, newsRows, response, reads, calc>>
    /\ UNCHANGED <<kisVars, cacheVars, graphSeq>>

\* tx.graph.delete({where: {id: graphId}}) and the commit: a Graph row that
\* is gone, or rows still stored under it, roll the transaction back
deleteGraphForUserGraph ==
    /\ \E call \in pending :
          /\ call.op = "delete"
          /\ pending' = pending \ {call}
          /\ IF /\ ReferencesGraph(call.graphId)
                /\ RowsOfGraph(call.graphId) = call.seen
             THEN /\ graphRows' = {g \in graphRows : g.id # call.graphId}
                  /\ nodeRows' = nodeRows \ call.seen.node
                  /\ edgeRows' = edgeRows \ call.seen.edge
                  /\ newsRows' = [k \in NewsKeys |->
                                     IF k \in call.seen.news THEN 0 ELSE newsRows[k]]
                  /\ Ended("delete", call.uid, call.graphId, "ok")
             ELSE /\ UNCHANGED <<graphRows, nodeRows, edgeRows, newsRows>>
                  /\ Ended("delete", call.uid, call.graphId, "InternalServerError")
    /\ UNCHANGED <<response, reads>>
    /\ UNCHANGED <<kisVars, cacheVars, graphSeq>>

InitLifecycle ==
    /\ graphRows = {}
    /\ nodeRows = {}
    /\ edgeRows = {}
    /\ newsRows = [k \in NewsKeys |-> 0]
    /\ response = NoResponse
    /\ reads = <<>>
    /\ calc = [done |-> FALSE, ended |-> {}]
    /\ candles = NoCandles
    /\ indicator = NoIndicator
    /\ Quiescent

NextLifecycle ==
    \/ saveGraphForUserCreate
    \/ saveGraphForUserThrow
    \/ saveGraphForUserTransaction
    \/ deleteGraphForUserFind
    \/ deleteGraphForUserChildren
    \/ deleteGraphForUserGraph

SpecLifecycle == InitLifecycle /\ [][NextLifecycle]_vars

\* some Node, Edge or News row is stored under the graph id
HasRows(graphId) ==
    \/ \E n \in nodeRows : n.graphId = graphId
    \/ \E e \in edgeRows : e.graphId = graphId
    \/ \E k \in NewsKeys : k[2] = graphId /\ newsRows[k] > 0

C30_AllOrNothing ==
    \A c \in calc.ended :
        c.op = "save" /\ c.status # "ok" =>
            /\ ~\E g \in graphRows : g.id = c.graphId
            /\ ~HasRows(c.graphId)

-----------------------------------------------------------------------------
(* fetchHtmlDesktop: one article page, with a retry after a timeout *)

ArticleUrls == {"n.news.naver.com/1", "n.news.naver.com/2", "n.news.naver.com/3"}

\* what one http.get ends in: a body, or an error with its code and HTTP status
HttpOutcomes ==
    {[code |-> "", status |-> 200, text |-> t] : t \in BOOLEAN} \cup
    {[code |-> "ECONNABORTED", status |-> 0, text |-> FALSE]} \cup
    {[code |-> "ERR_BAD_REQUEST", status |-> st, text |-> FALSE] : st \in {400, 403, 404, 429}} \cup
    {[code |-> "ERR_BAD_RESPONSE", status |-> st, text |-> FALSE] : st \in {500, 503}} \cup
    {[code |-> c, status |-> 0, text |-> FALSE] : c \in {"ECONNRESET", "ENOTFOUND", "ETIMEDOUT"}}

\* the error the catch block sees: the one of http.get, or the exception
\* thrown in the try block when data is not a string
CaughtCode(outcome) == IF outcome.status = 200 THEN "" ELSE outcome.code

ShouldRetryAnyError(outcome, attempt) == attempt < 3

\* e.code === 'ECONNABORTED' && attempt < 3
ShouldRetry(outcome, attempt) == CaughtCode(outcome) = "ECONNABORTED" /\ attempt < 3

\* fetchHtmlDesktop(url): attempt is 1 unless the method calls itself
fetchHtmlDesktop ==
    /\ response = NoResponse
    /\ calc = NoCalc
    /\ \E url \in ArticleUrls : calc' = [done |-> FALSE, url |-> url, attempt |-> 1, waited |-> 0]
    /\ UNCHANGED <<graphRows, nodeRows, edgeRows, newsRows, response, reads>>
    /\ UNCHANGED <<kisVars, asyncVars>>

\* one pass through the try and catch blocks
httpGet ==
    /\ response = NoResponse
    /\ calc # NoCalc
    /\ \E outcome \in HttpOutcomes :
          /\ reads' = Append(reads, outcome)
          /\ IF outcome.status = 200 /\ outcome.text
             THEN /\ response' = Answer("html")
                  /\ UNCHANGED calc
             ELSE IF ShouldRetry(outcome, calc.attempt)
             THEN /\ calc' = [calc EXCEPT !.attempt = @ + 1, !.waited = @ + 500 * calc.attempt]
                  /\ UNCHANGED response
             ELSE /\ response' = InternalServerError("NAVER body request failed")
                  /\ UNCHANGED calc
    /\ UNCHANGED <<graphRows, nodeRows, edgeRows, newsRows>>
    /\ UNCHANGED <<kisVars, asyncVars>>

NextFetch ==
    \/ fetchHtmlDesktop
    \/ httpGet
    \/ Respond

SpecFetch == Init /\ [][NextFetch]_vars

\* the requests made so far by the call
Attempts == Len(reads)

TimedOut(i) == reads[i].code = "ECONNABORTED"

\* C25: fetchHtmlDesktop makes at most 3 attempts and ends with the third
\* at the latest; an attempt is followed by another one only when it failed
\* with ECONNABORTED, and any other failure, a 4xx response included, ends
\* the call in an error with no retry.
C25_RetryOnlyOnAbort ==
    /\ Attempts <= 3
    /\ Attempts = 3 => response # NoResponse
    /\ \A i \in 1..(Attempts - 1) : TimedOut(i)
    /\ (Attempts > 0 /\ ~TimedOut(Attempts)) =>
          IF reads[Attempts].status = 200 /\ reads[Attempts].text
          THEN response.status = "ok"
          ELSE response.status = "InternalServerError"

\* a call that timed out twice and then met a 404
C25_Witness ==
    /\ Attempts = 3
    /\ TimedOut(1) /\ TimedOut(2)
    /\ reads[3].status = 404
    /\ response.status = "InternalServerError"
    /\ calc.waited = 1500

-----------------------------------------------------------------------------
(* enrichCollectedWithBodies: the collected links filled with their bodies *)

\* the items of collectNaverMnewsLinks: trimmed mnews links, each link once
CollectedItems ==
    LET items == {[link |-> <<"a">>, title |-> <<"t">>], [link |-> <<"a">>, title |-> <<>>],
                  [link |-> <<"b">>, title |-> <<"t">>], [link |-> <<"c">>, title |-> <<"u">>]}
    IN  {seq \in UNION {[1..n -> items] : n \in 0..MaxItems} :
            \A i, j \in 1..Len(seq) : seq[i].link = seq[j].link => i = j}

\* what the fetch of a link's page gives: a page with a body, a page
\* without one, or an error of fetchHtmlDesktop
PageFates == [{<<"a">>, <<"b">>, <<"c">>} -> {"html", "noBody", "error"}]

NotBuilt == [link |-> <<>>, title |-> <<>>, description |-> <<>>]

\* buildItemWithBodyFromDesktop in the try block of the batch: null when it throws
BuildItem(seed, fate) ==
    IF seed.title = <<>> \/ fate[seed.link] # "html" THEN NotBuilt
    ELSE [link |-> seed.link, title |-> seed.title, description |-> seed.link]

\* fetchBodiesWithConcurrency: the items built from seeds[i..], batch by batch
RECURSIVE FetchBodies(_, _, _, _)
FetchBodies(seeds, i, fate, CONCURRENCY) ==
    IF i > Len(seeds) THEN <<>>
    ELSE LET last == IF i + CONCURRENCY - 1 < Len(seeds)
                     THEN i + CONCURRENCY - 1 ELSE Len(seeds)
             batch == SubSeq(seeds, i, last)
             batchResults == [k \in 1..Len(batch) |-> BuildItem(batch[k], fate)]
             Built(b) == b # NotBuilt
         IN  SelectSeq(batchResults, Built) \o FetchBodies(seeds, i + CONCURRENCY, fate, CONCURRENCY)

InBuiltOrder(normalized, all) == all

\* new Map(all.map(b => [b.link, b])), then normalized.map(seed =>
\* byLink.get(seed.link)).filter(b => !!b)
InOriginalOrder(normalized, all) ==
    LET has(link) == \E k \in 1..Len(all) : all[k].link = link
        byLink(link) == all[CHOOSE k \in 1..Len(all) :
                               /\ all[k].link = link
                               /\ \A m \in (k + 1)..Len(all) : all[m].link # link]
        Found(seed) == has(seed.link)
        found == SelectSeq(normalized, Found)
    IN  [k \in 1..Len(found) |-> byLink(found[k].link)]

\* the outcome of enrichCollectedWithBodies and the cache table after it;
\* dbFail names the cache query that throws, if one does
EnrichOf(items, useCache, fate, CONCURRENCY, dbFail, cache) ==
    LET trimmed == [k \in 1..Len(items) |-> [items[k] EXCEPT !.link = Trim(@)]]
        HasLink(it) == it.link # <<>>
        normalized == SelectSeq(trimmed, HasLink)
        Cached(seed) == seed.link \in cache
        Missing(seed) == seed.link \notin cache
        hits == SelectSeq(normalized, Cached)
        builtFromCache == [k \in 1..Len(hits) |->
                              [link |-> hits[k].link, title |-> hits[k].title,
                               description |-> hits[k].link]]
        needFetch == SelectSeq(normalized, Missing)
        fetched == FetchBodies(needFetch, 1, fate, CONCURRENCY)
        failed == [response |-> InternalServerError("newsBodyCache"), cache |-> cache,
                   dbFail |-> dbFail]
    IN  IF normalized = <<>>
        THEN [response |-> Answer(<<>>), cache |-> cache, dbFail |-> "none"]
        ELSE IF ~useCache
        THEN [response |-> Answer(InOriginalOrder(normalized,
                                     FetchBodies(normalized, 1, fate, CONCURRENCY))),
              cache |-> cache, dbFail |-> "none"]
        ELSE IF dbFail = "findMany" THEN failed
        ELSE IF fetched # <<>> /\ dbFail = "createMany" THEN failed
        ELSE [response |-> Answer(InOriginalOrder(normalized, builtFromCache \o fetched)),
              cache |-> cache \cup {fetched[k].link : k \in 1..Len(fetched)},
              dbFail |-> "none"]

enrichCollectedWithBodies ==
    /\ response = NoResponse
    /\ \E items \in CollectedItems : \E useCache \in BOOLEAN : \E fate \in PageFates :
       \E production \in BOOLEAN : \E dbFail \in {"none", "findMany", "createMany"} :
          LET CONCURRENCY == IF production THEN 12 ELSE 16
              result == EnrichOf(items, useCache, fate, CONCURRENCY, dbFail, newsBodyCache)
          IN  /\ response' = result.response
              /\ newsBodyCache' = result.cache
              /\ calc' = [done |-> FALSE, items |-> items, useCache |-> useCache,
                          fate |-> fate, cached |-> newsBodyCache, dbFail |-> result.dbFail]
    /\ reads' = <<>>
    /\ UNCHANGED <<graphRows, nodeRows, edgeRows, newsRows>>
    /\ UNCHANGED <<kisVars, accessToken, tokenExpireAt, now, pending, graphSeq>>

NextEnrich ==
    \/ enrichCollectedWithBodies
    \/ Respond

SpecEnrich == Init /\ [][NextEnrich]_vars

\* the input item has a body: from the cache, or from a fetch that succeeded
HasBody(item) ==
    \/ calc.useCache /\ item.link \in calc.cached
    \/ item.title # <<>> /\ calc.fate[item.link] = "html"

\* the positions of the input items that have a link and a body, in input order
Kept == {k \in 1..Len(calc.items) : calc.items[k].link # <<>> /\ HasBody(calc.items[k])}

Enriched == response # NoResponse /\ calc # NoCalc

\* C24: enrichCollectedWithBodies never fails because the body fetch of a
\* single item failed, and it returns, in input order, exactly the input
\* items with a non-empty link whose body came from the cache or from a
\* successful fetch: an item is dropped only when its fetch failed.
C24_FailedItemsDropped ==
    Enriched =>
        /\ response.status # "ok" => calc.dbFail # "none"
        /\ response.status = "ok" =>
              /\ Len(response.value) = Cardinality(Kept)
              /\ \A k \in Kept :
                    LET pos == Cardinality({m \in Kept : m <= k})
                    IN  /\ response.value[pos].link = calc.items[k].link
                        /\ response.value[pos].title = calc.items[k].title

\* three items: the first one's body is cached, the second one's fetch
\* fails and the third one's succeeds, and the first and third are returned
C24_Witness ==
    /\ Enriched
    /\ response.status = "ok"
    /\ Len(calc.items) = 3
    /\ calc.useCache
    /\ calc.items[1].link \in calc.cached
    /\ calc.items[2].link \notin calc.cached /\ calc.fate[calc.items[2].link] = "error"
    /\ calc.items[3].link \notin calc.cached /\ calc.fate[calc.items[3].link] = "html"
    /\ Len(response.value) = 2
    /\ response.value[2].link = calc.items[3].link

-----------------------------------------------------------------------------
(* fetchBodiesWithConcurrency, statement by statement: the fetches of a    *)
(* batch start together and end one by one, in any order                   *)

\* seeds.length: no seed, one, a full batch, and up to MaxExtraSeeds more
SeedCounts(CONCURRENCY) == {0, 1} \cup (CONCURRENCY..(CONCURRENCY + MaxExtraSeeds))

\* the call, up to the first test of the while loop
fetchBodiesWithConcurrency ==
    /\ response = NoResponse
    /\ calc = NoCalc
    /\ \E production \in BOOLEAN : \E failEvery \in {1, 3} :
          LET CONCURRENCY == IF production THEN 12 ELSE 16
          IN  \E length \in SeedCounts(CONCURRENCY) :
                 calc' = [done |-> FALSE, CONCURRENCY |-> CONCURRENCY, length |-> length,
                          failEvery |-> failEvery, i |-> 0, awaiting |-> FALSE,
                          results |-> <<>>, attempts |-> [k \in 1..length |-> 0],
                          batches |-> 0]
    /\ UNCHANGED <<graphRows, nodeRows, edgeRows, newsRows, response, reads>>
    /\ UNCHANGED <<kisVars, asyncVars>>

SliceToEnd(i, length, CONCURRENCY) == (i + 1)..length

\* seeds.slice(i, i + CONCURRENCY), as positions 1..length
Slice(i, length, CONCURRENCY) ==
    (i + 1)..(IF i + CONCURRENCY < length THEN i + CONCURRENCY ELSE length)

\* i < seeds.length: batch.map(...) starts every fetch of the batch
startBatch ==
    /\ response = NoResponse
    /\ calc # NoCalc
    /\ ~calc.awaiting
    /\ calc.i < calc.length
    /\ pending' = Slice(calc.i, calc.length, calc.CONCURRENCY)
    /\ calc' = [calc EXCEPT !.awaiting = TRUE, !.batches = @ + 1,
                   !.attempts = [k \in 1..calc.length |->
                       IF k \in Slice(calc.i, calc.length, calc.CONCURRENCY)
                       THEN @[k] + 1 ELSE @[k]]]
    /\ UNCHANGED <<graphRows, nodeRows, edgeRows, newsRows, response, reads>>
    /\ UNCHANGED <<kisVars, cacheVars, graphSeq>>

\* one buildItemWithBodyFromDesktop of the batch returns or throws
fetchEnds ==
    /\ \E k \in pending : pending' = pending \ {k}
    /\ UNCHANGED <<graphRows, nodeRows, edgeRows, newsRows, response, reads, calc>>
    /\ UNCHANGED <<kisVars, cacheVars, graphSeq>>

\* Promise.all resolves: results.push(...) of the items built, i += CONCURRENCY
batchEnds ==
    /\ response = NoResponse
    /\ calc # NoCalc
    /\ calc.awaiting
    /\ pending = {}
    /\ LET batch == Slice(calc.i, calc.length, calc.CONCURRENCY)
           first == calc.i + 1
           batchResults == [k \in 1..Cardinality(batch) |-> first + k - 1]
           Built(seed) == seed % calc.failEvery # 0
       IN  calc' = [calc EXCEPT !.awaiting = FALSE, !.i = @ + calc.CONCURRENCY,
                       !.results = @ \o SelectSeq(batchResults, Built)]
    /\ UNCHANGED <<graphRows, nodeRows, edgeRows, newsRows, response, reads>>
    /\ UNCHANGED <<kisVars, asyncVars>>

\* i >= seeds.length: return results
returnResults ==
    /\ response = NoResponse
    /\ calc # NoCalc
    /\ ~calc.awaiting
    /\ calc.i >= calc.length
    /\ response' = Answer(calc.results)
    /\ UNCHANGED <<graphRows, nodeRows, edgeRows, newsRows, reads, calc>>
    /\ UNCHANGED <<kisVars, asyncVars>>

NextBatch ==
    \/ fetchBodiesWithConcurrency
    \/ startBatch
    \/ fetchEnds
    \/ batchEnds
    \/ returnResults
    \/ Respond

SpecBatch == Init /\ [][NextBatch]_vars

\* the batch a seed falls in: 0 for the first CONCURRENCY seeds, and so on
BatchOf(k) == (k - 1) \div calc.CONCURRENCY

\* C28: fetchBodiesWithConcurrency has at most CONCURRENCY fetches in
\* flight, 12 in production and 16 otherwise; a batch starts only when no
\* fetch of the previous batch is in flight; and every seed is attempted
\* exactly once by the time the call returns, never more than once before.
C28_BoundedBatches ==
    calc # NoCalc =>
        /\ calc.CONCURRENCY \in {12, 16}
        /\ Cardinality(pending) <= calc.CONCURRENCY
        /\ \A k \in pending : \A m \in 1..calc.length :
              /\ BatchOf(m) < BatchOf(k) => m \notin pending /\ calc.attempts[m] = 1
              /\ BatchOf(m) > BatchOf(k) => m \notin pending /\ calc.attempts[m] = 0
        /\ \A k \in 1..calc.length : calc.attempts[k] <= 1
        /\ response # NoResponse =>
              /\ pending = {}
              /\ \A k \in 1..calc.length : calc.attempts[k] = 1

\* the second batch of a production call of 13 seeds is in flight: the 12
\* fetches of the first batch have ended and the 13th has been started
C28_Witness ==
    /\ calc # NoCalc
    /\ calc.CONCURRENCY = 12
    /\ calc.length = 13
    /\ calc.batches = 2
    /\ pending = {13}
    /\ Len(calc.results) = 8

-----------------------------------------------------------------------------
(* getAccessToken: the cached vendor token, with calls that overlap *)

Num(value) == [type |-> "number", value |-> value]

\* a token string of the vendor, with what the vendor knows about it: when
\* it was issued and for how long it is valid (seconds), and the
\* expires_in field of the response that carried it
Token(issuedAt, lifetime, expires_in) ==
    [type |-> "string", issuedAt |-> issuedAt, lifetime |-> lifetime,
     expires_in |-> expires_in]

\* the bodies of the vendor's answers to a request that started at `start`
\* (ms): no access_token, or a token issued between the start and now
TokenResponses(start) ==
    {[access_token |-> Undefined, expires_in |-> Undefined]} \cup
    UNION {{[access_token |-> Token(issuedAt, lifetime, reported), expires_in |-> reported] :
               issuedAt \in {t \in 0..now : t % 30 = 0 /\ t * 1000 >= start},
               reported \in {Undefined, Str(<<"?">>), Num(lifetime)}} :
           lifetime \in {90, 120}}

\* x in a condition: a non-empty string, or a number that is neither 0 nor NaN
Truthy(x) == x.type = "string" \/ (x.type = "number" /\ x.value # 0)

\* Date.now(), in ms
DateNow == now * 1000

\* Number(data.expires_in ?? 0)
ExpiresIn(data) ==
    IF data.expires_in.type \in {"undefined", "null"} THEN Num(0)
    ELSE IF data.expires_in.type = "number" THEN data.expires_in
    ELSE [type |-> "NaN"]

ExpireAtNoMargin(start, expiresIn) ==
    IF expiresIn.type = "NaN" THEN expiresIn ELSE Num(start + expiresIn.value * 1000)

\* now + (expiresIn - 60) * 1000
ExpireAt(start, expiresIn) ==
    IF expiresIn.type = "NaN" THEN expiresIn
    ELSE Num(start + (expiresIn.value - 60) * 1000)

TimeOfAnswer(call) == DateNow

\* const now = Date.now(), taken before the request is sent
TimeOfCall(call) == call.start

\* this.accessToken && this.tokenExpireAt && now < this.tokenExpireAt
CacheValid == Truthy(accessToken) /\ Truthy(tokenExpireAt) /\ DateNow < tokenExpireAt.value

\* the statements up to the await: the cached token, or a request to the vendor
getAccessToken ==
    /\ response = NoResponse
    /\ IF CacheValid
       THEN /\ response' = Answer(accessToken)
            /\ calc' = [done |-> FALSE, served |-> "cache", at |-> DateNow,
                        before |-> <<accessToken, tokenExpireAt>>]
            /\ UNCHANGED pending
       ELSE /\ pending' = pending \cup {[op |-> "token", start |-> DateNow]}
            /\ UNCHANGED <<response, calc>>
    /\ UNCHANGED <<graphRows, nodeRows, edgeRows, newsRows, reads>>
    /\ UNCHANGED <<kisVars, cacheVars, graphSeq>>

\* the statements after the await: the request failed, or its answer is
\* checked and cached
tokenAnswer ==
    /\ response = NoResponse
    /\ \E call \in pending :
          /\ pending' = pending \ {call}
          /\ \/ /\ response' = InternalServerError("KIS token request")
                /\ calc' = [done |-> FALSE, served |-> "failed", at |-> DateNow,
                            before |-> <<accessToken, tokenExpireAt>>]
                /\ UNCHANGED <<accessToken, tokenExpireAt>>
             \/ \E data \in TokenResponses(call.start) :
                   IF ~Truthy(data.access_token)
                   THEN /\ response' = InternalServerError("KIS token missing")
                        /\ calc' = [done |-> FALSE, served |-> "failed", at |-> DateNow,
                                    before |-> <<accessToken, tokenExpireAt>>]
                        /\ UNCHANGED <<accessToken, tokenExpireAt>>
                   ELSE /\ accessToken' = data.access_token
                        /\ tokenExpireAt' = ExpireAt(TimeOfCall(call), ExpiresIn(data))
                        /\ response' = Answer(data.access_token)
                        /\ calc' = [done |-> FALSE, served |-> "vendor", at |-> DateNow,
                                    before |-> <<accessToken, tokenExpireAt>>,
                                    start |-> call.start, data |-> data]
    /\ UNCHANGED <<graphRows, nodeRows, edgeRows, newsRows, reads>>
    /\ UNCHANGED <<kisVars, now, graphSeq, newsBodyCache>>

\* 30 seconds pass
Tick ==
    /\ now < 30 * MaxClock
    /\ now' = now + 30
    /\ UNCHANGED <<wingVars, kisVars, accessToken, tokenExpireAt, pending, graphSeq,
                   newsBodyCache>>

\* the caller has taken the token or the error
tokenTaken ==
    /\ response # NoResponse
    /\ response' = NoResponse
    /\ calc' = NoCalc
    /\ UNCHANGED <<graphRows, nodeRows, edgeRows, newsRows, reads>>
    /\ UNCHANGED <<kisVars, asyncVars>>

NextToken ==
    \/ getAccessToken
    \/ tokenAnswer
    \/ Tick
    \/ tokenTaken

SpecToken == Init /\ [][NextToken]_vars

\* the moment a token stops being valid at the vendor, in ms
TrueExpiry(token) == (token.issuedAt + token.lifetime) * 1000

Returned(how) == response # NoResponse /\ calc # NoCalc /\ calc.served = how

\* C26: getAccessToken returns the cached token only while now is before
\* tokenExpireAt, which is the start of the refresh request plus
\* (expires_in - 60) seconds, so a token served from the cache is at least
\* 60 seconds before its true expiry; from tokenExpireAt on, a call sends a
\* request instead of returning the cached token.
C26_ExpiryMargin ==
    /\ Returned("cache") =>
          /\ response.value = accessToken
          /\ calc.at < tokenExpireAt.value
          /\ calc.at + 60 * 1000 <= TrueExpiry(response.value)
    /\ (Returned("vendor") /\ calc.data.expires_in.type = "number") =>
          tokenExpireAt = [type |-> "number",
                           value |-> calc.start + (calc.data.expires_in.value - 60) * 1000]

\* a token of 120 seconds is served from the cache 30 seconds after the
\* request that fetched it started
C26_Witness ==
    /\ Returned("cache")
    /\ response.value.lifetime = 120
    /\ tokenExpireAt.value = 60000
    /\ calc.at = 30000

\* C27: with getAccessToken calls that overlap and requests that are
\* answered in any order, every call that returns yields a token the vendor
\* has issued, the cached token and the cached expiry come from one vendor
\* response, the cached expiry is never later than the token's true expiry
\* minus 60 seconds, and a failed refresh leaves both as they were.
C27_ConcurrentRefresh ==
    /\ response.status = "ok" =>
          /\ response.value.type = "string"
          /\ response.value.issuedAt * 1000 <= calc.at
    /\ accessToken.type = "null" <=> tokenExpireAt.type = "null"
    /\ accessToken.type # "null" =>
          /\ accessToken.type = "string"
          /\ tokenExpireAt.type = "number" =>
                /\ tokenExpireAt.value <= TrueExpiry(accessToken) - 60 * 1000
                /\ \E start \in 0..accessToken.issuedAt :
                      tokenExpireAt.value =
                          (start + (IF accessToken.expires_in.type = "number"
                                    THEN accessToken.expires_in.value ELSE 0) - 60) * 1000
          /\ tokenExpireAt.type = "NaN" => accessToken.expires_in.type = "string"
    /\ Returned("failed") => calc.before = <<accessToken, tokenExpireAt>>

\* two requests were in flight at once and the one sent first was answered
\* last: the cache holds its token, issued before the other request started
C27_Witness ==
    /\ Returned("vendor")
    /\ calc.before[1].type = "string"
    /\ calc.before[1].issuedAt * 1000 > calc.start
    /\ accessToken.issuedAt * 1000 = calc.start
    /\ accessToken.issuedAt < calc.before[1].issuedAt
    /\ tokenExpireAt.value < calc.before[2].value

====
